---- MODULE Spec2Model ----
(***************************************************************************)
(* Model of the JSON wire codec of pkg/aali_graphdb (ansys/aali-sharedtypes) *)
(* A JSON document is a tree; encoding maps an in-memory LogicalType or     *)
(* Value to a tree, decoding maps a tree to a result (error or object).     *)
(***************************************************************************)
EXTENDS Integers, Sequences, FiniteSets, TLC

(***************************************************************************)
(* Bounds.  TLC integers are 32 bits wide, so Go's int64 / time.Duration is *)
(* modelled as a signed integer of IntBits bits and a second as             *)
(* NanosPerSecond ticks.  The real constants satisfy                        *)
(*   (2^63 - 1) % 10^9 = 854775807 >= 10^9 / 2,                             *)
(* i.e. the largest duration lies in the upper half of its second; the      *)
(* scaled constants keep that relation (127 % 10 = 7 >= 5).                 *)
(***************************************************************************)
IntBits == 8
NanosPerSecond == 10

RECURSIVE Pow2(_)
Pow2(n) == IF n = 0 THEN 1 ELSE 2 * Pow2(n - 1)

maxDuration == Pow2(IntBits - 1) - 1
minDuration == 0 - Pow2(IntBits - 1)

\* two's-complement wrap-around of int64 arithmetic
WrapInt64(x) == ((x + Pow2(IntBits - 1)) % Pow2(IntBits)) - Pow2(IntBits - 1)

\* Go's integer division and remainder truncate toward zero
GoDiv(x, m) == IF x >= 0 THEN x \div m ELSE 0 - ((0 - x) \div m)
GoRem(x, m) == x - m * GoDiv(x, m)

(***************************************************************************)
(* JSON documents.  An object is its member list in textual order, so that  *)
(* duplicate member names can be written; ToRaw is what encoding/json makes *)
(* of it when it fills a Go map (the last member of a name wins).           *)
(***************************************************************************)
JNull == [k |-> "null"]
JStr(s) == [k |-> "str", s |-> s]
JNum(n) == [k |-> "num", n |-> n]
JBool(b) == [k |-> "bool", b |-> b]
JArr(a) == [k |-> "arr", a |-> a]
JObj(m) == [k |-> "obj", m |-> m]
\* a JSON string produced by a formatter (time.Format, civil.Date.String, ...):
\* its characters are kept as the formatter's fields
JText(fmt, parts) == [k |-> "str", fmt |-> fmt, parts |-> parts]

IsPlainStr(d) == d.k = "str" /\ "s" \in DOMAIN d

Keys(m) == {m[i][1] : i \in DOMAIN m}
LastIndex(m, key) == CHOOSE i \in DOMAIN m : m[i][1] = key /\ \A j \in DOMAIN m : m[j][1] = key => j <= i
ToRaw(m) == [key \in Keys(m) |-> m[LastIndex(m, key)][2]]

\* results of a decode: err = "" is success
None == [k |-> "none"]
Ok(v) == [err |-> "", val |-> v]
Err(e) == [err |-> e, val |-> None]
IsOk(r) == r.err = ""

Nil == [k |-> "nil"]

(***************************************************************************)
(* The closed variant sets: the generators' declarative lists.              *)
(***************************************************************************)
UnitLogicalTypes ==
  {"Any", "Bool", "Serial", "Int64", "Int32", "Int16", "Int8", "UInt64", "UInt32",
   "UInt16", "UInt8", "Int128", "Double", "Float", "Date", "Interval", "Timestamp",
   "TimestampTz", "TimestampNs", "TimestampMs", "TimestampSec", "InternalID",
   "String", "Blob", "Node", "Rel", "RecursiveRel", "UUID"}
StructLogicalTypes == {"List", "Array", "Struct", "Map", "Union", "Decimal"}
logtypes == UnitLogicalTypes \cup StructLogicalTypes

SignedTags == {"Int64", "Int32", "Int16", "Int8", "Int128"}
UnsignedTags == {"UInt64", "UInt32", "UInt16", "UInt8"}
FloatTags == {"Double", "Float"}
TimestampTags == {"Timestamp", "TimestampTz", "TimestampNs", "TimestampMs", "TimestampSec"}
valtypes ==
  {"Null", "Bool"} \cup SignedTags \cup UnsignedTags \cup FloatTags
  \cup {"Date", "Interval"} \cup TimestampTags
  \cup {"InternalID", "String", "Blob", "List", "Array", "Struct", "Node", "Rel",
        "RecursiveRel", "Map", "Union", "UUID", "Decimal"}

\* the two lists as the generators declare them, in their order
logtypesDefs ==
  <<"Any", "Bool", "Serial", "Int64", "Int32", "Int16", "Int8", "UInt64", "UInt32", "UInt16",
    "UInt8", "Int128", "Double", "Float", "Date", "Interval", "Timestamp", "TimestampTz",
    "TimestampNs", "TimestampMs", "TimestampSec", "InternalID", "String", "Blob", "List", "Array",
    "Struct", "Node", "Rel", "RecursiveRel", "Map", "Union", "UUID", "Decimal">>
valtypesDefs ==
  <<"Null", "Bool", "Int64", "Int32", "Int16", "Int8", "UInt64", "UInt32", "UInt16", "UInt8",
    "Int128", "Double", "Float", "Date", "Interval", "Timestamp", "TimestampTz", "TimestampNs",
    "TimestampMs", "TimestampSec", "InternalID", "String", "Blob", "List", "Array", "Struct",
    "Node", "Rel", "RecursiveRel", "Map", "Union", "UUID", "Decimal">>

(***************************************************************************)
(* Go types, as far as json.Unmarshal distinguishes them.                   *)
(***************************************************************************)
GoT(name) == [go |-> name]
GoInt(lo, hi) == [go |-> "int", lo |-> lo, hi |-> hi]
TwopleT(A, B) == [go |-> "Twople", A |-> A, B |-> B]
SliceT(E) == [go |-> "slice", E |-> E]
\* a public variant type (BoolLogicalType, ListValue, ...) and the payload type
\* T of its externallyTagged[T] wrapper
VariantT(fam, t) == [go |-> "variant", fam |-> fam, tag |-> t]
ExTagT(P) == [go |-> "externallyTagged", P |-> P]
PayloadT(fam, t) == [go |-> "payload", fam |-> fam, tag |-> t]

Int64T == GoInt(minDuration, maxDuration)
UInt64T == GoInt(0, Pow2(IntBits) - 1)
Int8T == GoInt(-128, 127)
UInt8T == GoInt(0, 255)
\* the 16- and 32-bit types are modelled at the width of the machine word
IntTypeOf(t) ==
  IF t = "Int8" THEN Int8T
  ELSE IF t = "UInt8" THEN UInt8T
  ELSE IF t \in UnsignedTags THEN UInt64T
  ELSE Int64T

\* tag() with the 128-bit integer, an alias of int64, reporting the tag of Int64
tag_ofAlias(T) == IF T.tag = "Int128" THEN "Int64" ELSE T.tag
\* tag() of the payload type T
tag(T) == T.tag

(***************************************************************************)
(* In-memory objects.  A Go map is a function, a slice a sequence, a Twople *)
(* the record of its fields a and b.                                        *)
(***************************************************************************)
Twople(a, b) == [a |-> a, b |-> b]
InternalID(tid, off) == [TableID |-> tid, Offset |-> off]

NilLogicalType == [lt |-> "nil"]
UnitLT(t) == [lt |-> t]
ListLogicalType(c) == [lt |-> "List", ChildType |-> c]
ArrayLogicalType(c, n) == [lt |-> "Array", ChildType |-> c, NumElements |-> n]
StructLogicalType(f) == [lt |-> "Struct", Fields |-> f]
MapLogicalType(kt, vt) == [lt |-> "Map", KeyType |-> kt, ValueType |-> vt]
UnionLogicalType(f) == [lt |-> "Union", Fields |-> f]
DecimalLogicalType(p, sc) == [lt |-> "Decimal", Precision |-> p, Scale |-> sc]

NilValue == [t |-> "nil"]
NullValue(l) == [t |-> "Null", LogicalType |-> l]
BoolValue(b) == [t |-> "Bool", b |-> b]
NumValue(t, n) == [t |-> t, n |-> n]
StringValue(s) == [t |-> "String", s |-> s]
BlobValue(q) == [t |-> "Blob", bytes |-> q]
DateValue(d) == [t |-> "Date", date |-> d]
IntervalValue(d) == [t |-> "Interval", d |-> d]
TimeValue(t, tm) == [t |-> t, time |-> tm]
InternalIDValue(id) == [t |-> "InternalID", id |-> id]
UUIDValue(u) == [t |-> "UUID", uuid |-> u]
DecimalValue(d) == [t |-> "Decimal", dec |-> d]
ListValue(l, vs) == [t |-> "List", LogicalType |-> l, Values |-> vs]
ArrayValue(l, vs) == [t |-> "Array", LogicalType |-> l, Values |-> vs]
StructValue(m) == [t |-> "Struct", m |-> m]
NodeValue(id, label, props) == [t |-> "Node", ID |-> id, Label |-> label, Properties |-> props]
RelValue(src, dst, label, props) ==
  [t |-> "Rel", SrcNode |-> src, DstNode |-> dst, Label |-> label, Properties |-> props]
RecursiveRelValue(ns, rs) == [t |-> "RecursiveRel", Nodes |-> ns, Rels |-> rs]
MapValue(kt, vt, pairs) == [t |-> "Map", KeyType |-> kt, ValueType |-> vt, Pairs |-> pairs]
UnionValue(types, v) == [t |-> "Union", Types |-> types, Value |-> v]

(***************************************************************************)
(* Scalar micro-codecs.                                                     *)
(***************************************************************************)
\* time.Duration.Round(m): nearest multiple of m, halves away from zero,
\* saturating at the largest / smallest duration when the result overflows
lessThanHalf(x, y) == x + x < y
Round(d, m) ==
  IF m <= 0 THEN d
  ELSE LET r == GoRem(d, m) IN
       IF d < 0
       THEN IF lessThanHalf(0 - r, m) THEN d - r
            ELSE LET d1 == WrapInt64(d - m - r) IN IF d1 < d THEN d1 ELSE minDuration
       ELSE IF lessThanHalf(r, m) THEN d - r
            ELSE LET d1 == WrapInt64(d + m - r) IN IF d1 > d THEN d1 ELSE maxDuration

\* int64(rounded.Seconds()): Seconds() is float64(d/Second) + float64(d%Second)/1e9
\* and the conversion truncates; for a whole number of seconds and for the two
\* saturated values the float sum is within 2^-19 of the exact one, so the result
\* is the truncated quotient
wholeSecsOf(rounded) == GoDiv(rounded, NanosPerSecond)

intervalValueJson_MarshalJSON(val) ==
  LET rounded == Round(val, NanosPerSecond)
      wholeSecs == wholeSecsOf(rounded)
      leftover == WrapInt64(val - rounded)
  IN JArr(<<JNum(wholeSecs), JNum(leftover)>>)

\* allNanos := secsNanos.a*1e9 + secsNanos.b, in int64
allNanosOf(secsNanos) == WrapInt64(secsNanos.a * NanosPerSecond + secsNanos.b)

\* time.Format(time.RFC3339Nano): the fraction is printed without trailing zeros
FracWidth == 9
RECURSIVE TrimZeros(_)
TrimZeros(q) == IF Len(q) > 0 /\ q[Len(q)] = 0 THEN TrimZeros(SubSeq(q, 1, Len(q) - 1)) ELSE q
RECURSIVE Digits(_, _)
Digits(n, w) == IF w = 0 THEN <<>> ELSE Append(Digits(n \div 10, w - 1), n % 10)
RECURSIVE Pow10(_)
Pow10(n) == IF n = 0 THEN 1 ELSE 10 * Pow10(n - 1)
RECURSIVE FromDigits(_, _)
FromDigits(q, w) == IF q = <<>> THEN 0 ELSE q[1] * Pow10(w - 1) + FromDigits(Tail(q), w - 1)

\* a time.Time is the pair of its Unix second and its nanosecond within it; the
\* calendar fields printed for the second are kept as the second itself
\* the time printed with time.RFC3339, which has no fraction of a second
rfc3339NanoTime_MarshalJSON_seconds(v) == JText("rfc3339", <<v.sec, <<>> >>)
rfc3339NanoTime_MarshalJSON(v) == JText("rfc3339", <<v.sec, TrimZeros(Digits(v.nsec, FracWidth))>>)
rfc3339NanoTime_UnmarshalJSON(data) ==
  IF data.k # "str" THEN Err("UnmarshalTypeError")
  ELSE IF IsPlainStr(data) \/ data.fmt # "rfc3339" THEN Err("ParseError")
  ELSE Ok([sec |-> data.parts[1], nsec |-> FromDigits(data.parts[2], FracWidth)])

\* civil.Date, uuid.UUID and decimal.Decimal are library types with their own text
\* form; the text keeps the fields it is printed from
TextMarshal(fmt, v) == JText(fmt, v)
TextUnmarshal(fmt, data) ==
  IF data.k # "str" THEN Err("UnmarshalTypeError")
  ELSE IF IsPlainStr(data) \/ data.fmt # fmt THEN Err("ParseError")
  ELSE Ok(data.parts)

(***************************************************************************)
(* Decoding: Unmarshal(T, data) is json.Unmarshal(data, &x) for x of Go     *)
(* type T.  A type with an UnmarshalJSON method is handed every document,   *)
(* null included; the built-in kinds are left at their zero value by null.  *)
(***************************************************************************)
RECURSIVE Unmarshal(_, _)
RECURSIVE UnmarshalSeq(_, _)

FirstErr(rs) == rs[CHOOSE i \in DOMAIN rs : ~IsOk(rs[i]) /\ \A j \in 1..(i - 1) : IsOk(rs[j])]
AllOk(rs) == \A i \in DOMAIN rs : IsOk(rs[i])

UnmarshalBool(data) ==
  IF data.k = "null" THEN Ok(FALSE)
  ELSE IF data.k = "bool" THEN Ok(data.b)
  ELSE Err("UnmarshalTypeError")

UnmarshalInt(T, data) ==
  IF data.k = "null" THEN Ok(0)
  ELSE IF data.k # "num" THEN Err("UnmarshalTypeError")
  ELSE IF data.n < T.lo \/ data.n > T.hi THEN Err("UnmarshalTypeError")
  ELSE Ok(data.n)

UnmarshalString(data) ==
  IF data.k = "null" THEN Ok("")
  ELSE IF IsPlainStr(data) THEN Ok(data.s)
  ELSE Err("UnmarshalTypeError")

UnmarshalSeq(E, q) ==
  IF q = <<>> THEN Ok(<<>>)
  ELSE LET h == Unmarshal(E, Head(q)) IN
       IF ~IsOk(h) THEN h
       ELSE LET r == UnmarshalSeq(E, Tail(q)) IN
            IF ~IsOk(r) THEN r ELSE Ok(<<h.val>> \o r.val)

UnmarshalSlice(E, data) ==
  IF data.k = "null" THEN Ok(<<>>)
  ELSE IF data.k # "arr" THEN Err("UnmarshalTypeError")
  ELSE UnmarshalSeq(E, data.a)

\* a Go struct takes the members it knows and keeps the zero value of the rest
IsStructDoc(data) == data.k \in {"obj", "null"}
RawOf(data) == IF data.k = "obj" THEN ToRaw(data.m) ELSE <<>>
FieldOr(raw, name, T, zero) == IF name \in DOMAIN raw THEN Unmarshal(T, raw[name]) ELSE Ok(zero)

\* the wrapper's decode without the comparison of the member name with the tag
externallyTagged_UnmarshalJSON_anyKey(T0, data) ==
  IF ~IsStructDoc(data)
  THEN IF data.k # "str" THEN Err("UnmarshalTypeError")
       ELSE IF ~IsPlainStr(data) \/ data.s # tag(T0) THEN Err("TagMismatch")
       ELSE Ok(Nil)
  ELSE LET raw == RawOf(data) IN
       IF Cardinality(DOMAIN raw) # 1 THEN Err("UnexpectedKeyCount")
       ELSE Unmarshal(T0, raw[CHOOSE x \in DOMAIN raw : TRUE])

\* externallyTagged[T].UnmarshalJSON
externallyTagged_UnmarshalJSON(T, data) ==
  IF ~IsStructDoc(data)
  THEN \* try again with string type
       IF data.k # "str" THEN Err("UnmarshalTypeError")
       ELSE IF ~IsPlainStr(data) \/ data.s # tag(T) THEN Err("TagMismatch")
       ELSE Ok(Nil)
  ELSE LET raw == RawOf(data) IN
       IF Cardinality(DOMAIN raw) # 1 THEN Err("UnexpectedKeyCount")
       ELSE LET key == CHOOSE x \in DOMAIN raw : TRUE
                typedVal == Unmarshal(T, raw[key])
            IN IF ~IsOk(typedVal) THEN typedVal
               ELSE IF key # tag(T) THEN Err("TagMismatch")
               ELSE Ok(typedVal.val)

\* the tuple decode with the length test len(arr) >= 2
Twople_UnmarshalJSON_atLeast2(A, B, data) ==
  IF data.k \notin {"arr", "null"} THEN Err("UnmarshalTypeError")
  ELSE LET arr == IF data.k = "arr" THEN data.a ELSE <<>> IN
       IF Len(arr) >= 2
       THEN LET a == Unmarshal(A, arr[1]) IN
            IF ~IsOk(a) THEN a
            ELSE LET b == Unmarshal(B, arr[2]) IN
                 IF ~IsOk(b) THEN b ELSE Ok(Twople(a.val, b.val))
       ELSE Err("MalformedTuple")

\* the tuple decode that does not look at the error of the second component
Twople_UnmarshalJSON_ignoreB(A, B, data) ==
  IF data.k \notin {"arr", "null"} THEN Err("UnmarshalTypeError")
  ELSE LET arr == IF data.k = "arr" THEN data.a ELSE <<>> IN
       IF Len(arr) = 2
       THEN LET a == Unmarshal(A, arr[1]) IN
            IF ~IsOk(a) THEN a
            ELSE LET b == Unmarshal(B, arr[2])
                     zero == CASE B.go = "int" -> 0
                               [] B.go = "string" -> ""
                               [] B.go = "logicalTypeUnmarshalHelper" -> NilLogicalType
                               [] B.go = "valueUnmarshalHelper" -> NilValue
                               [] OTHER -> <<>>
                 IN Ok(Twople(a.val, IF IsOk(b) THEN b.val ELSE zero))
       ELSE Err("MalformedTuple")

\* Twople[A, B].UnmarshalJSON
Twople_UnmarshalJSON(A, B, data) ==
  IF data.k \notin {"arr", "null"} THEN Err("UnmarshalTypeError")
  ELSE LET arr == IF data.k = "arr" THEN data.a ELSE <<>> IN
       IF Len(arr) = 2
       THEN LET a == Unmarshal(A, arr[1]) IN
            IF ~IsOk(a) THEN a
            ELSE LET b == Unmarshal(B, arr[2]) IN
                 IF ~IsOk(b) THEN b ELSE Ok(Twople(a.val, b.val))
       ELSE Err("MalformedTuple")

logicalTypeUnmarshalHelper == GoT("logicalTypeUnmarshalHelper")
valueUnmarshalHelper == GoT("valueUnmarshalHelper")
valueArrayJson == GoT("valueArrayJson")
valueMapJson == GoT("valueMapJson")

\* typed values: a twople of a logical type and an array of values
typedValuesTwople_UnmarshalJSON(data) ==
  Twople_UnmarshalJSON(logicalTypeUnmarshalHelper, valueArrayJson, data)
toList(tup) == ListValue(tup.a, tup.b)
toArray(tup) == ArrayValue(tup.a, tup.b)

\* named fields / named types: twoples of a string and a value / logical type
namedFieldsTwoples_UnmarshalJSON(data) ==
  UnmarshalSlice(TwopleT(GoT("string"), valueUnmarshalHelper), data)
namedTypesTwoples_Unmarshal(data) ==
  UnmarshalSlice(TwopleT(GoT("string"), logicalTypeUnmarshalHelper), data)
\* m[tup.a] = tup.b for each twople in order
LastOf(t, key) == CHOOSE i \in DOMAIN t : t[i].a = key /\ \A j \in DOMAIN t : t[j].a = key => j <= i
\* toMap storing the last twople's value under every name
namedFieldsTwoples_toMap_lastValue(t) == [key \in {t[i].a : i \in DOMAIN t} |-> t[Len(t)].b]
\* toMap keeping the value a name already has
namedFieldsTwoples_toMap_firstWins(t) ==
  [key \in {t[i].a : i \in DOMAIN t} |->
     t[CHOOSE i \in DOMAIN t : t[i].a = key /\ \A j \in DOMAIN t : t[j].a = key => i <= j].b]
namedFieldsTwoples_toMap(t) == [key \in {t[i].a : i \in DOMAIN t} |-> t[LastOf(t, key)].b]
namedTypesTwoples_toMap(t) == [key \in {t[i].a : i \in DOMAIN t} |-> t[LastOf(t, key)].b]

\* a []uint8 is read from an array element by element and from a string as
\* base64; std holds the strings of the documents that are base64
blobValueJson_Unmarshal(data) ==
  LET std == [Bool |-> <<6, 138, 37>>, List |-> <<46, 43, 45>>, bool |-> <<110, 138, 37>>,
              name |-> <<157, 169, 158>>, Blob |-> <<6, 90, 27>>,
              NotARealType |-> <<54, 139, 64, 69, 230, 165, 79, 42, 94>>]
  IN IF data.k # "str" THEN UnmarshalSlice(UInt8T, data)
     ELSE IF ~IsPlainStr(data) THEN (IF data.fmt = "base64" THEN Ok(data.parts) ELSE Err("CorruptInputError"))
     ELSE IF data.s \in DOMAIN std THEN Ok(std[data.s])
     ELSE Err("CorruptInputError")

intervalValueJson_UnmarshalJSON(data) ==
  LET secsNanos == Twople_UnmarshalJSON(Int64T, Int64T, data) IN
  IF ~IsOk(secsNanos) THEN secsNanos ELSE Ok(allNanosOf(secsNanos.val))

valueArrayJson_UnmarshalJSON(data) == UnmarshalSlice(valueUnmarshalHelper, data)

\* whether Go can hash x, a Value or a LogicalType, as the key of a map: a type
\* that is or holds a slice or a map cannot be hashed
RECURSIVE hashable(_)
hashable(x) ==
  IF "lt" \in DOMAIN x
  THEN CASE x.lt \in {"Struct", "Union"} -> FALSE
         [] x.lt \in {"List", "Array"} -> hashable(x.ChildType)
         [] x.lt = "Map" -> hashable(x.KeyType) /\ hashable(x.ValueType)
         [] OTHER -> TRUE
  ELSE CASE x.t \in {"Blob", "List", "Array", "Struct", "Node", "Rel", "RecursiveRel", "Map", "Union"} -> FALSE
         [] x.t = "Null" -> hashable(x.LogicalType)
         [] OTHER -> TRUE
\* the run-time panic of a map assignment whose key cannot be hashed
PanicUnhashable == "panic: runtime error: hash of unhashable type"

valueMapJson_UnmarshalJSON(data) ==
  LET intermediate == UnmarshalSlice(TwopleT(valueUnmarshalHelper, valueUnmarshalHelper), data) IN
  IF ~IsOk(intermediate) THEN intermediate
  ELSE LET t == intermediate.val IN
       IF \E i \in DOMAIN t : ~hashable(t[i].a) THEN Err(PanicUnhashable)
       ELSE Ok([key \in {t[i].a : i \in DOMAIN t} |-> t[LastOf(t, key)].b])

mapValueJson_UnmarshalJSON(data) ==
  LET intermediate ==
        Twople_UnmarshalJSON(TwopleT(logicalTypeUnmarshalHelper, logicalTypeUnmarshalHelper),
                             valueMapJson, data)
  IN IF ~IsOk(intermediate) THEN intermediate
     ELSE Ok(MapValue(intermediate.val.a.a, intermediate.val.a.b, intermediate.val.b))

InternalID_Unmarshal(data) ==
  IF ~IsStructDoc(data) THEN Err("UnmarshalTypeError")
  ELSE LET raw == RawOf(data)
           rs == <<FieldOr(raw, "table_id", UInt64T, 0), FieldOr(raw, "offset", UInt64T, 0)>>
       IN IF ~AllOk(rs) THEN FirstErr(rs) ELSE Ok(InternalID(rs[1].val, rs[2].val))

(***************************************************************************)
(* The variants' payload types and their wiring to the wrapper.             *)
(***************************************************************************)
namedTypesField(raw) ==
  IF "fields" \in DOMAIN raw THEN namedTypesTwoples_Unmarshal(raw["fields"]) ELSE Ok(<<>>)

UnmarshalLogicalTypePayload(t, data) ==
  IF ~IsStructDoc(data) THEN Err("UnmarshalTypeError")
  ELSE LET raw == RawOf(data) IN
    CASE t = "List" ->
           LET c == FieldOr(raw, "child_type", logicalTypeUnmarshalHelper, NilLogicalType) IN
           IF ~IsOk(c) THEN c ELSE Ok(ListLogicalType(c.val))
      [] t = "Array" ->
           LET rs == <<FieldOr(raw, "child_type", logicalTypeUnmarshalHelper, NilLogicalType),
                       FieldOr(raw, "num_elements", UInt64T, 0)>> IN
           IF ~AllOk(rs) THEN FirstErr(rs) ELSE Ok(ArrayLogicalType(rs[1].val, rs[2].val))
      [] t = "Struct" ->
           LET f == namedTypesField(raw) IN
           IF ~IsOk(f) THEN f ELSE Ok(StructLogicalType(f.val))
      [] t = "Union" ->
           LET f == namedTypesField(raw) IN
           IF ~IsOk(f) THEN f ELSE Ok(UnionLogicalType(f.val))
      [] t = "Map" ->
           LET rs == <<FieldOr(raw, "key_type", logicalTypeUnmarshalHelper, NilLogicalType),
                       FieldOr(raw, "value_type", logicalTypeUnmarshalHelper, NilLogicalType)>> IN
           IF ~AllOk(rs) THEN FirstErr(rs) ELSE Ok(MapLogicalType(rs[1].val, rs[2].val))
      [] t = "Decimal" ->
           LET rs == <<FieldOr(raw, "precision", UInt64T, 0), FieldOr(raw, "scale", UInt64T, 0)>> IN
           IF ~AllOk(rs) THEN FirstErr(rs) ELSE Ok(DecimalLogicalType(rs[1].val, rs[2].val))
      [] OTHER -> Ok(UnitLT(t))

propertiesField(raw) ==
  IF "properties" \in DOMAIN raw
  THEN LET f == namedFieldsTwoples_UnmarshalJSON(raw["properties"]) IN
       IF ~IsOk(f) THEN f ELSE Ok(namedFieldsTwoples_toMap(f.val))
  ELSE Ok(<<>>)

UnmarshalNode(data) ==
  IF ~IsStructDoc(data) THEN Err("UnmarshalTypeError")
  ELSE LET raw == RawOf(data)
           rs == <<FieldOr(raw, "id", GoT("InternalID"), InternalID(0, 0)),
                   FieldOr(raw, "label", GoT("string"), ""),
                   propertiesField(raw)>>
       IN IF ~AllOk(rs) THEN FirstErr(rs) ELSE Ok(NodeValue(rs[1].val, rs[2].val, rs[3].val))

UnmarshalRel(data) ==
  IF ~IsStructDoc(data) THEN Err("UnmarshalTypeError")
  ELSE LET raw == RawOf(data)
           rs == <<FieldOr(raw, "src_node", GoT("InternalID"), InternalID(0, 0)),
                   FieldOr(raw, "dst_node", GoT("InternalID"), InternalID(0, 0)),
                   FieldOr(raw, "label", GoT("string"), ""),
                   propertiesField(raw)>>
       IN IF ~AllOk(rs) THEN FirstErr(rs)
          ELSE Ok(RelValue(rs[1].val, rs[2].val, rs[3].val, rs[4].val))

UnmarshalRecursiveRel(data) ==
  IF ~IsStructDoc(data) THEN Err("UnmarshalTypeError")
  ELSE LET raw == RawOf(data)
           rs == <<FieldOr(raw, "nodes", SliceT(VariantT("Value", "Node")), <<>>),
                   FieldOr(raw, "rels", SliceT(VariantT("Value", "Rel")), <<>>)>>
       IN IF ~AllOk(rs) THEN FirstErr(rs) ELSE Ok(RecursiveRelValue(rs[1].val, rs[2].val))

UnmarshalUnion(data) ==
  IF ~IsStructDoc(data) THEN Err("UnmarshalTypeError")
  ELSE LET raw == RawOf(data)
           types == IF "types" \in DOMAIN raw
                    THEN namedTypesTwoples_Unmarshal(raw["types"]) ELSE Ok(<<>>)
           rs == <<types, FieldOr(raw, "value", valueUnmarshalHelper, NilValue)>>
       IN IF ~AllOk(rs) THEN FirstErr(rs)
          ELSE Ok(UnionValue(namedTypesTwoples_toMap(rs[1].val), rs[2].val))

UnmarshalValuePayload(t, data) ==
  CASE t = "Null" ->
         LET r == Unmarshal(logicalTypeUnmarshalHelper, data) IN
         IF ~IsOk(r) THEN r ELSE Ok(NullValue(r.val))
    [] t = "Bool" -> LET r == UnmarshalBool(data) IN IF ~IsOk(r) THEN r ELSE Ok(BoolValue(r.val))
    [] t \in SignedTags \cup UnsignedTags ->
         LET r == UnmarshalInt(IntTypeOf(t), data) IN IF ~IsOk(r) THEN r ELSE Ok(NumValue(t, r.val))
    [] t \in FloatTags ->
         LET r == UnmarshalInt(Int64T, data) IN IF ~IsOk(r) THEN r ELSE Ok(NumValue(t, r.val))
    [] t = "Date" ->
         LET r == TextUnmarshal("date", data) IN IF ~IsOk(r) THEN r ELSE Ok(DateValue(r.val))
    [] t = "UUID" ->
         LET r == TextUnmarshal("uuid", data) IN IF ~IsOk(r) THEN r ELSE Ok(UUIDValue(r.val))
    [] t = "Decimal" ->
         LET r == TextUnmarshal("decimal", data) IN IF ~IsOk(r) THEN r ELSE Ok(DecimalValue(r.val))
    [] t = "Interval" ->
         LET r == intervalValueJson_UnmarshalJSON(data) IN
         IF ~IsOk(r) THEN r ELSE Ok(IntervalValue(r.val))
    [] t \in TimestampTags ->
         LET r == rfc3339NanoTime_UnmarshalJSON(data) IN
         IF ~IsOk(r) THEN r ELSE Ok(TimeValue(t, r.val))
    [] t = "InternalID" ->
         LET r == InternalID_Unmarshal(data) IN IF ~IsOk(r) THEN r ELSE Ok(InternalIDValue(r.val))
    [] t = "String" ->
         LET r == UnmarshalString(data) IN IF ~IsOk(r) THEN r ELSE Ok(StringValue(r.val))
    [] t = "Blob" ->
         LET r == blobValueJson_Unmarshal(data) IN IF ~IsOk(r) THEN r ELSE Ok(BlobValue(r.val))
    [] t = "List" ->
         LET r == typedValuesTwople_UnmarshalJSON(data) IN IF ~IsOk(r) THEN r ELSE Ok(toList(r.val))
    [] t = "Array" ->
         LET r == typedValuesTwople_UnmarshalJSON(data) IN IF ~IsOk(r) THEN r ELSE Ok(toArray(r.val))
    [] t = "Struct" ->
         LET r == namedFieldsTwoples_UnmarshalJSON(data) IN
         IF ~IsOk(r) THEN r ELSE Ok(StructValue(namedFieldsTwoples_toMap(r.val)))
    [] t = "Node" -> UnmarshalNode(data)
    [] t = "Rel" -> UnmarshalRel(data)
    [] t = "RecursiveRel" -> UnmarshalRecursiveRel(data)
    [] t = "Map" -> mapValueJson_UnmarshalJSON(data)
    [] t = "Union" -> UnmarshalUnion(data)

\* the UnmarshalJSON of a public variant type: the wrapper, then the payload
UnmarshalVariant(fam, t, data) ==
  LET r == externallyTagged_UnmarshalJSON(PayloadT(fam, t), data) IN
  IF ~IsOk(r) THEN r
  ELSE IF r.val = Nil
       THEN IF fam = "LogicalType" /\ t \in UnitLogicalTypes THEN Ok(UnitLT(t))
            ELSE Err("MissingPayload")
       ELSE r

\* a registry with a variant left out of the Value list
registry_withoutInterval(fam) == IF fam = "Value" THEN valtypes \ {"Interval"} ELSE logtypes
\* a registry with the two families' lists exchanged
registry_exchanged(fam) == IF fam = "Value" THEN logtypes ELSE valtypes

\* the generic decoders: the variant is looked up by the document's tag
registry(fam) == IF fam = "Value" THEN valtypes ELSE logtypes
UnmarshalHelper(fam, data) ==
  IF data.k = "str"
  THEN IF ~IsPlainStr(data) \/ data.s \notin registry(fam) THEN Err("UnknownTag")
       ELSE UnmarshalVariant(fam, data.s, data)
  ELSE IF ~IsStructDoc(data) THEN Err("UnmarshalTypeError")
  ELSE LET raw == RawOf(data) IN
       IF Cardinality(DOMAIN raw) # 1 THEN Err("UnexpectedKeyCount")
       ELSE LET key == CHOOSE x \in DOMAIN raw : TRUE IN
            IF key \notin registry(fam) THEN Err("UnknownTag")
            ELSE UnmarshalVariant(fam, key, data)

Unmarshal(T, data) ==
  CASE T.go = "bool" -> UnmarshalBool(data)
    [] T.go = "int" -> UnmarshalInt(T, data)
    [] T.go = "string" -> UnmarshalString(data)
    [] T.go = "Twople" -> Twople_UnmarshalJSON(T.A, T.B, data)
    [] T.go = "slice" -> UnmarshalSlice(T.E, data)
    [] T.go = "InternalID" -> InternalID_Unmarshal(data)
    [] T.go = "intervalValueJson" -> intervalValueJson_UnmarshalJSON(data)
    [] T.go = "valueArrayJson" -> valueArrayJson_UnmarshalJSON(data)
    [] T.go = "valueMapJson" -> valueMapJson_UnmarshalJSON(data)
    [] T.go = "logicalTypeUnmarshalHelper" -> UnmarshalHelper("LogicalType", data)
    [] T.go = "valueUnmarshalHelper" -> UnmarshalHelper("Value", data)
    [] T.go = "variant" -> UnmarshalVariant(T.fam, T.tag, data)
    [] T.go = "externallyTagged" ->
         LET r == externallyTagged_UnmarshalJSON(T.P, data) IN
         IF ~IsOk(r) THEN r ELSE Ok([value |-> r.val])
    [] T.go = "payload" ->
         IF T.fam = "Value" THEN UnmarshalValuePayload(T.tag, data)
         ELSE UnmarshalLogicalTypePayload(T.tag, data)

(***************************************************************************)
(* Encoding.  Ranging over a Go map visits its entries in an unspecified    *)
(* order, so encoding a Value yields one of a set of documents.  A nil and  *)
(* an empty slice are the same sequence here.                               *)
(***************************************************************************)
RECURSIVE SeqChoices(_)
SeqChoices(ss) ==
  IF ss = <<>> THEN {<<>>}
  ELSE {<<h>> \o tl : h \in Head(ss), tl \in SeqChoices(Tail(ss))}

RECURSIVE Orders(_)
Orders(S) == IF S = {} THEN {<<>>} ELSE UNION {{<<x>> \o tl : tl \in Orders(S \ {x})} : x \in S}

\* the wrapper's encode always writing the object form
externallyTagged_MarshalJSON_alwaysObject(t, value) ==
  JObj(<< <<t, IF value = Nil THEN JNull ELSE value>> >>)

\* externallyTagged[T].MarshalJSON; value is the encoded payload, or Nil
externallyTagged_MarshalJSON(t, value) ==
  IF value = Nil THEN JStr(t) ELSE JObj(<< <<t, value>> >>)

\* the tuple encode writing b before a
Twople_MarshalJSON_swapped(a, b) == JArr(<<b, a>>)

\* Twople[A, B].MarshalJSON, on the encoded components
Twople_MarshalJSON(a, b) == JArr(<<a, b>>)

InternalID_Marshal(id) ==
  JObj(<< <<"table_id", JNum(id.TableID)>>, <<"offset", JNum(id.Offset)>> >>)

\* the blob written as encoding/json writes a []uint8: a base64 string
blobValueJson_MarshalJSON_base64(v) == JText("base64", v)
blobValueJson_MarshalJSON(v) == JArr([i \in DOMAIN v |-> JNum(v[i])])

RECURSIVE MarshalLogicalType(_)
namedTypes_Marshal(f) ==
  JArr([i \in DOMAIN f |-> Twople_MarshalJSON(JStr(f[i].a), MarshalLogicalType(f[i].b))])
MarshalLogicalType(l) ==
  CASE l.lt = "nil" -> JNull
    [] l.lt = "List" ->
         externallyTagged_MarshalJSON("List",
           JObj(<< <<"child_type", MarshalLogicalType(l.ChildType)>> >>))
    [] l.lt = "Array" ->
         externallyTagged_MarshalJSON("Array",
           JObj(<< <<"child_type", MarshalLogicalType(l.ChildType)>>,
                   <<"num_elements", JNum(l.NumElements)>> >>))
    [] l.lt = "Struct" ->
         externallyTagged_MarshalJSON("Struct", JObj(<< <<"fields", namedTypes_Marshal(l.Fields)>> >>))
    [] l.lt = "Union" ->
         externallyTagged_MarshalJSON("Union", JObj(<< <<"fields", namedTypes_Marshal(l.Fields)>> >>))
    [] l.lt = "Map" ->
         externallyTagged_MarshalJSON("Map",
           JObj(<< <<"key_type", MarshalLogicalType(l.KeyType)>>,
                   <<"value_type", MarshalLogicalType(l.ValueType)>> >>))
    [] l.lt = "Decimal" ->
         externallyTagged_MarshalJSON("Decimal",
           JObj(<< <<"precision", JNum(l.Precision)>>, <<"scale", JNum(l.Scale)>> >>))
    [] OTHER -> externallyTagged_MarshalJSON(l.lt, Nil)

\* the twoples of a map, in each order the range may take
\* the loop without i++: the first twople is overwritten, the others stay zero
namedFieldsTwoplesFromMap_noIncrement(m) ==
  {[i \in DOMAIN o |-> IF i = 1 THEN Twople(o[Len(o)], m[o[Len(o)]]) ELSE Twople("", NilValue)]
     : o \in Orders(DOMAIN m)}
namedFieldsTwoplesFromMap(m) ==
  {[i \in DOMAIN o |-> Twople(o[i], m[o[i]])] : o \in Orders(DOMAIN m)}
namedTypesTwoplesFromMap(m) ==
  {[i \in DOMAIN o |-> Twople(o[i], m[o[i]])] : o \in Orders(DOMAIN m)}

typedValuesTwopleFromList(l) == Twople(l.LogicalType, l.Values)
typedValuesTwopleFromArray(a) == Twople(a.LogicalType, a.Values)

RECURSIVE MarshalValue(_)
RECURSIVE MarshalPayload(_)

valueArrayJson_MarshalJSON(v) ==
  {JArr(q) : q \in SeqChoices([i \in DOMAIN v |-> MarshalValue(v[i])])}

\* the typed-values encode writing the values before the type
typedValuesTwople_MarshalJSON_valuesFirst(tup) ==
  {Twople_MarshalJSON(vs, MarshalLogicalType(tup.a)) : vs \in valueArrayJson_MarshalJSON(tup.b)}

typedValuesTwople_MarshalJSON(tup) ==
  {Twople_MarshalJSON(MarshalLogicalType(tup.a), vs) : vs \in valueArrayJson_MarshalJSON(tup.b)}

namedFieldsTwoples_MarshalJSON(tups) ==
  {JArr(q) : q \in SeqChoices([i \in DOMAIN tups |->
      {Twople_MarshalJSON(JStr(tups[i].a), e) : e \in MarshalValue(tups[i].b)}])}

namedTypesTwoples_Marshal(tups) ==
  JArr([i \in DOMAIN tups |-> Twople_MarshalJSON(JStr(tups[i].a), MarshalLogicalType(tups[i].b))])

valueMapJson_MarshalJSON(v) ==
  UNION {{JArr(q) : q \in SeqChoices([i \in DOMAIN o |->
            {Twople_MarshalJSON(ke, ve) : ke \in MarshalValue(o[i]), ve \in MarshalValue(v[o[i]])}])}
         : o \in Orders(DOMAIN v)}

mapValueJson_MarshalJSON(v) ==
  LET types == Twople_MarshalJSON(MarshalLogicalType(v.KeyType), MarshalLogicalType(v.ValueType)) IN
  {Twople_MarshalJSON(types, pairs) : pairs \in valueMapJson_MarshalJSON(v.Pairs)}

propertiesDocs(m) == UNION {namedFieldsTwoples_MarshalJSON(tups) : tups \in namedFieldsTwoplesFromMap(m)}

MarshalPayload(v) ==
  CASE v.t = "Null" -> {MarshalLogicalType(v.LogicalType)}
    [] v.t = "Bool" -> {JBool(v.b)}
    [] v.t \in SignedTags \cup UnsignedTags \cup FloatTags -> {JNum(v.n)}
    [] v.t = "Date" -> {TextMarshal("date", v.date)}
    [] v.t = "UUID" -> {TextMarshal("uuid", v.uuid)}
    [] v.t = "Decimal" -> {TextMarshal("decimal", v.dec)}
    [] v.t = "Interval" -> {intervalValueJson_MarshalJSON(v.d)}
    [] v.t \in TimestampTags -> {rfc3339NanoTime_MarshalJSON(v.time)}
    [] v.t = "InternalID" -> {InternalID_Marshal(v.id)}
    [] v.t = "String" -> {JStr(v.s)}
    [] v.t = "Blob" -> {blobValueJson_MarshalJSON(v.bytes)}
    [] v.t = "List" -> typedValuesTwople_MarshalJSON(typedValuesTwopleFromList(v))
    [] v.t = "Array" -> typedValuesTwople_MarshalJSON(typedValuesTwopleFromArray(v))
    [] v.t = "Struct" -> propertiesDocs(v.m)
    [] v.t = "Node" ->
         {JObj(<< <<"id", InternalID_Marshal(v.ID)>>, <<"label", JStr(v.Label)>>,
                  <<"properties", p>> >>) : p \in propertiesDocs(v.Properties)}
    [] v.t = "Rel" ->
         {JObj(<< <<"src_node", InternalID_Marshal(v.SrcNode)>>,
                  <<"dst_node", InternalID_Marshal(v.DstNode)>>,
                  <<"label", JStr(v.Label)>>, <<"properties", p>> >>)
            : p \in propertiesDocs(v.Properties)}
    [] v.t = "RecursiveRel" ->
         {JObj(<< <<"nodes", ns>>, <<"rels", rs>> >>)
            : ns \in valueArrayJson_MarshalJSON(v.Nodes), rs \in valueArrayJson_MarshalJSON(v.Rels)}
    [] v.t = "Map" -> mapValueJson_MarshalJSON(v)
    [] v.t = "Union" ->
         {JObj(<< <<"types", namedTypesTwoples_Marshal(tups)>>, <<"value", e>> >>)
            : tups \in namedTypesTwoplesFromMap(v.Types), e \in MarshalValue(v.Value)}

\* the MarshalJSON of a public Value type: its payload under its tag
MarshalValue(v) ==
  IF v.t = "nil" THEN {JNull}
  ELSE {externallyTagged_MarshalJSON(v.t, p) : p \in MarshalPayload(v)}

(***************************************************************************)
(* The inputs: in-memory objects to encode, and documents to decode.        *)
(***************************************************************************)
Durations == minDuration..maxDuration

Times == {[sec |-> 0, nsec |-> 0], [sec |-> 1745414781, nsec |-> 123450000],
          [sec |-> 5, nsec |-> 999999999], [sec |-> 5, nsec |-> 1]}

namedTypes3 == <<Twople("name", UnitLT("String")), Twople("age", UnitLT("UInt32")),
                 Twople("items", ListLogicalType(UnitLT("String")))>>

InputLogicalTypes ==
  {UnitLT(t) : t \in UnitLogicalTypes}
  \cup {ListLogicalType(UnitLT(t)) : t \in {"Any", "Bool", "Float", "Node"}}
  \cup {ListLogicalType(ListLogicalType(UnitLT("Bool"))),
        ListLogicalType(ArrayLogicalType(UnitLT("Int16"), 2)),
        ListLogicalType(StructLogicalType(SubSeq(namedTypes3, 1, 2))),
        ListLogicalType(MapLogicalType(UnitLT("UInt32"), UnitLT("Float"))),
        ListLogicalType(DecimalLogicalType(1, 7)),
        ArrayLogicalType(UnitLT("UInt16"), 12),
        MapLogicalType(UnitLT("String"), UnitLT("Int8")),
        MapLogicalType(StructLogicalType(namedTypes3), ListLogicalType(UnitLT("Blob"))),
        DecimalLogicalType(5, 3)}
  \cup {StructLogicalType(SubSeq(namedTypes3, i, j)) : i \in DOMAIN namedTypes3, j \in 0..Len(namedTypes3)}
  \cup {UnionLogicalType(SubSeq(namedTypes3, i, j)) : i \in DOMAIN namedTypes3, j \in 0..Len(namedTypes3)}
  \cup {StructLogicalType(<<namedTypes3[o[1]], namedTypes3[o[2]], namedTypes3[o[3]]>>)
          : o \in Orders(DOMAIN namedTypes3)}
  \cup {StructLogicalType(<<Twople("inner", StructLogicalType(SubSeq(namedTypes3, 2, 3))),
                            Twople("u", UnionLogicalType(SubSeq(namedTypes3, 1, 2)))>>)}

ScalarValues ==
  {BoolValue(TRUE), BoolValue(FALSE)}
  \cup {NumValue("Int64", n) : n \in {minDuration, -6, 0, 82, maxDuration}}
  \cup {NumValue("UInt64", n) : n \in {0, 4, 12, Pow2(IntBits) - 1}}
  \cup {NumValue("Int8", n) : n \in {-128, -6, 127}}
  \cup {NumValue("UInt8", n) : n \in {0, 50, 255}}
  \cup {NumValue("Int32", 1), NumValue("Int16", 100), NumValue("UInt32", 101),
        NumValue("UInt16", 212), NumValue("Int128", 90), NumValue("Double", -56),
        NumValue("Float", 90)}
  \cup {StringValue(x) : x \in {"", "Hello", "Joe"}}
  \cup {BlobValue(q) : q \in {<<>>, <<0, 1, 2, 3, 4>>, <<255>>}}
  \cup {DateValue(<<2025, 4, 23>>), UUIDValue(<<143, 145, 75, 206>>), DecimalValue(<<1234, 2>>)}
  \cup {TimeValue(t, tm) : t \in TimestampTags, tm \in Times}
  \cup {InternalIDValue(InternalID(0, 0)), InternalIDValue(InternalID(1, 10))}
  \cup {NullValue(UnitLT("Any")), NullValue(ListLogicalType(UnitLT("Float")))}

fields3 == [a |-> BoolValue(FALSE), name |-> StringValue("Joe"), n |-> NumValue("Int64", 82)]
Restrict(f, S) == [x \in S |-> f[x]]
StructValues == {StructValue(Restrict(fields3, S)) : S \in SUBSET (DOMAIN fields3)}

pairs3 == [key \in {NumValue("UInt64", 4), NumValue("UInt64", 12), NumValue("UInt64", 0)} |->
             BoolValue(key.n = 4)]
MapValues ==
  {MapValue(UnitLT("UInt64"), UnitLT("Bool"), Restrict(pairs3, S)) : S \in SUBSET (DOMAIN pairs3)}
  \cup {MapValue(UnitLT("String"), ListLogicalType(UnitLT("UInt64")),
                 [key \in {StringValue("Joe"), StringValue("Hello")} |->
                    ListValue(UnitLT("UInt64"), <<NumValue("UInt64", 0), NumValue("UInt64", 12)>>)])}

types2 == [num |-> UnitLT("Int64"), str |-> UnitLT("String")]
node1 == NodeValue(InternalID(1, 10), "my-label", Restrict(fields3, {"a", "name"}))
rel1 == RelValue(InternalID(4, 1), InternalID(6, 0), "lab", Restrict(fields3, {"n", "name"}))

CompositeValues ==
  StructValues \cup MapValues
  \cup {ListValue(UnitLT("UInt64"), <<NumValue("UInt64", 0), NumValue("UInt64", 12)>>),
        ListValue(UnitLT("UInt64"), <<NumValue("UInt64", 12), NumValue("UInt64", 0)>>),
        ListValue(UnitLT("Bool"), <<>>),
        ListValue(StructLogicalType(SubSeq(namedTypes3, 1, 2)),
                  <<StructValue(fields3), StructValue(Restrict(fields3, {"a", "n"}))>>),
        ListValue(ListLogicalType(UnitLT("Interval")),
                  <<ListValue(UnitLT("Interval"), <<IntervalValue(23), IntervalValue(-5)>>)>>),
        ArrayValue(UnitLT("Bool"), <<BoolValue(TRUE), BoolValue(FALSE)>>),
        ArrayValue(UnitLT("Bool"), <<BoolValue(FALSE), BoolValue(TRUE), BoolValue(TRUE)>>),
        StructValue([inner |-> StructValue(Restrict(fields3, {"a", "name"})),
                     list |-> ListValue(UnitLT("Bool"), <<BoolValue(TRUE), BoolValue(FALSE)>>)]),
        NodeValue(InternalID(1, 10), "my-label", <<>>), node1,
        RelValue(InternalID(4, 1), InternalID(6, 0), "lab", <<>>), rel1,
        RecursiveRelValue(<<node1>>, <<rel1>>),
        UnionValue(types2, NumValue("Int64", 1)),
        UnionValue(Restrict(types2, {"str"}), StringValue("Hello")),
        UnionValue(types2, StructValue(Restrict(fields3, {"a", "name"})))}

InputValues == ScalarValues \cup {IntervalValue(d) : d \in Durations} \cup CompositeValues

\* documents as they may arrive from a peer, well formed or not
Payloads ==
  {JNull, JNum(5), JNum(0 - 1), JNum(Pow2(IntBits)), JBool(TRUE),
   JStr("Bool"), JStr("Int64"), JStr("List"), JStr("bool"), JStr("NotARealType"),
   JObj(<<>>), JObj(<< <<"child_type", JStr("Float")>> >>),
   JObj(<< <<"child_type", JStr("NotARealType")>> >>),
   JArr(<<>>), JArr(<<JNum(1)>>), JArr(<<JNum(1), JNum(2)>>), JArr(<<JNum(2), JNum(1)>>),
   JArr(<<JNum(1), JNum(2), JNum(3)>>), JArr(<<JNum(1), JNum(2), JNum(3), JNum(4)>>),
   JArr(<<JNum(maxDuration), JNum(maxDuration)>>), JArr(<<JStr("a"), JNum(2)>>),
   JArr(<<JNum(1), JBool(FALSE)>>),
   JArr(<<JStr("name"), JStr("String")>>), JArr(<<JStr("name"), JStr("NotARealType")>>),
   JArr(<<JStr("UInt64"), JArr(<<JObj(<< <<"UInt64", JNum(0)>> >>), JObj(<< <<"UInt64", JNum(12)>> >>)>>)>>),
   JArr(<<JArr(<<JObj(<< <<"UInt64", JNum(0)>> >>)>>), JStr("UInt64")>>),
   JArr(<<JStr("UInt64"), JArr(<<JObj(<< <<"UInt64", JNum(0)>> >>), JObj(<< <<"Uint64", JNum(12)>> >>)>>)>>),
   JArr(<<JStr("Bool"), JArr(<<JObj(<< <<"Bool", JBool(TRUE)>>, <<"Int64", JNum(1)>> >>)>>)>>)}

WireKeys == {"Bool", "Int64", "Int32", "Interval", "List", "Null", "bool", "NotARealType"}

\* well-formed pair lists of a Map whose keys are composite Values
CompositeKeyPairs ==
  LET yes == JObj(<< <<"Bool", JBool(TRUE)>> >>)
      u0 == JObj(<< <<"UInt64", JNum(0)>> >>)
      blob == JObj(<< <<"Blob", JArr(<<JNum(1), JNum(2)>>)>> >>)
      list == JObj(<< <<"List", JArr(<<JStr("UInt64"), JArr(<<u0>>)>>)>> >>)
      struct == JObj(<< <<"Struct", JArr(<<JArr(<<JStr("a"), yes>>)>>)>> >>)
      map == JObj(<< <<"Map", JArr(<<JArr(<<JStr("UInt64"), JStr("Bool")>>), JArr(<<JArr(<<u0, yes>>)>>)>>)>> >>)
  IN {JArr(<<JArr(<<key, yes>>)>>) : key \in {blob, list, struct, map}}
     \cup {JArr(<<JArr(<<u0, yes>>), JArr(<<list, yes>>)>>)}

\* payloads of the collection converters, with a component that does not decode
NestedPayloads ==
  LET u0 == JObj(<< <<"UInt64", JNum(0)>> >>)
      u12 == JObj(<< <<"UInt64", JNum(12)>> >>)
      badKey == JObj(<< <<"Uint64", JNum(12)>> >>)
      yes == JObj(<< <<"Bool", JBool(TRUE)>> >>)
      badVal == JObj(<< <<"Bool", JNum(5)>> >>)
      types == JArr(<<JStr("UInt64"), JStr("Bool")>>)
      pairs == JArr(<<JArr(<<u0, yes>>), JArr(<<u12, yes>>)>>)
      pairsBadKey == JArr(<<JArr(<<u0, yes>>), JArr(<<badKey, yes>>)>>)
      pairsBadVal == JArr(<<JArr(<<u0, yes>>), JArr(<<u12, badVal>>)>>)
  IN CompositeKeyPairs \cup {JArr(<<JArr(<<JStr("Blob"), JStr("Bool")>>), p>>) : p \in CompositeKeyPairs} \cup
     {JArr(<<u0, u12>>), JArr(<<u12>>), JArr(<<u0, badKey>>), JArr(<<badVal, u12>>),
      pairs, JArr(<<JArr(<<u12, yes>>)>>), pairsBadKey, pairsBadVal,
      JArr(<<types, pairs>>), JArr(<<types, pairsBadKey>>), JArr(<<types, pairsBadVal>>),
      JArr(<<JArr(<<JStr("UInt64"), JStr("NotARealType")>>), pairs>>)}

WireDocs ==
  Payloads \cup NestedPayloads
  \cup {JObj(<< <<key, p>> >>) : key \in WireKeys, p \in Payloads}
  \cup {JObj(<< <<k1, p1>>, <<k2, p2>> >>) :
          k1 \in {"Bool", "Int64"}, k2 \in {"Bool", "Int64"},
          p1 \in {JBool(TRUE), JNum(5)}, p2 \in {JBool(FALSE), JNum(5)}}
  \cup (LET yes == JObj(<< <<"Bool", JBool(TRUE)>> >>)
            no == JObj(<< <<"Bool", JBool(FALSE)>> >>)
            u0 == JObj(<< <<"UInt64", JNum(0)>> >>)
            u12 == JObj(<< <<"UInt64", JNum(12)>> >>)
            fields == JArr(<<JArr(<<JStr("a"), yes>>), JArr(<<JStr("b"), yes>>), JArr(<<JStr("a"), no>>)>>)
            types == JArr(<<JArr(<<JStr("num"), JStr("Int64")>>), JArr(<<JStr("num"), JStr("String")>>)>>)
            pairs == JArr(<<JArr(<<u0, yes>>), JArr(<<u12, yes>>), JArr(<<u0, no>>)>>)
        IN {JObj(<< <<"Struct", fields>> >>), pairs,
            JObj(<< <<"Struct", JArr(<<JArr(<<JStr("a"), yes>>), JArr(<<JStr("a"), JNum(5)>>)>>)>> >>),
            JObj(<< <<"Union", JObj(<< <<"types", types>>, <<"value", JObj(<< <<"Int64", JNum(5)>> >>)>> >>)>> >>),
            JObj(<< <<"Map", JArr(<<JArr(<<JStr("UInt64"), JStr("Bool")>>), pairs>>)>> >>)})
  \cup {JObj(<< <<"Blob", p>> >>) :
          p \in {JArr(<<JNum(0), JNum(255)>>), JArr(<<JNum(256)>>), JArr(<<JNum(1), JNum(0 - 1)>>),
                 JArr(<<JNum(1), JNull>>), JArr(<<JNum(1), JBool(TRUE)>>), JArr(<<JNum(257), JNum(2)>>),
                 JText("base64", <<1, 2>>), JStr("Bool"), JStr("Int64")}}

WireTargets ==
  {VariantT("Value", t) : t \in {"Bool", "Int64", "Interval", "List", "Null", "Blob", "Struct", "Union"}}
  \cup {VariantT("LogicalType", t) : t \in {"Bool", "List"}}
  \cup {ExTagT(PayloadT("Value", t)) : t \in {"Bool", "Int64", "List"}}
  \cup {ExTagT(PayloadT("LogicalType", t)) : t \in {"Bool", "List"}}
  \cup {valueUnmarshalHelper, logicalTypeUnmarshalHelper,
        TwopleT(Int64T, Int64T), TwopleT(GoT("string"), logicalTypeUnmarshalHelper),
        valueArrayJson, valueMapJson, PayloadT("Value", "Map")}

(***************************************************************************)
(* The state machine: one codec call per step.                              *)
(*   src   the object handed to json.Marshal (None when a document arrives) *)
(*   T     the Go type of the destination handed to json.Unmarshal          *)
(*   data  the document                                                     *)
(*   dest  the destination's contents                                       *)
(*   err   the error returned by the last call ("" is nil)                  *)
(* Calls that run concurrently are kept apart from these:                   *)
(*   calls   for each call in progress, its pc, src, T, data, dest and err  *)
(*   frames  the local variables of the calls, one frame per slot           *)
(***************************************************************************)
VARIABLES pc, src, T, data, dest, err, calls, frames
vars == <<pc, src, T, data, dest, err, calls, frames>>

FamilyOf(o) == IF "lt" \in DOMAIN o THEN "LogicalType" ELSE "Value"
TagOfObject(o) == IF "lt" \in DOMAIN o THEN o.lt ELSE o.t
HelperOf(fam) == IF fam = "Value" THEN valueUnmarshalHelper ELSE logicalTypeUnmarshalHelper

Init ==
  /\ dest = None
  /\ err = ""
  /\ calls = <<>>
  /\ frames = <<>>
  /\ \/ /\ pc = "start"
        /\ src \in InputValues \cup InputLogicalTypes
        /\ T = VariantT(FamilyOf(src), TagOfObject(src))
        /\ data = None
     \/ /\ pc = "received"
        /\ src = None
        /\ T \in WireTargets
        /\ data \in WireDocs

\* json.Marshal(src)
Marshal ==
  /\ pc = "start"
  /\ data' \in (IF FamilyOf(src) = "Value" THEN MarshalValue(src) ELSE {MarshalLogicalType(src)})
  /\ pc' = "marshalled"
  /\ UNCHANGED <<src, T, dest, err, calls, frames>>

\* json.Unmarshal(data, &dest) with dest of type D
UnmarshalInto(D, next) ==
  LET r == Unmarshal(D, data) IN
  /\ dest' = IF IsOk(r) THEN r.val ELSE dest
  /\ err' = r.err
  /\ pc' = IF r.err = PanicUnhashable THEN "panicked" ELSE next
  /\ UNCHANGED <<src, T, data, calls, frames>>

\* the typed decoder of the variant that was encoded
UnmarshalTyped == pc = "marshalled" /\ UnmarshalInto(T, "typed")

\* the generic decoder of its family
UnmarshalGeneric == pc = "marshalled" /\ UnmarshalInto(HelperOf(T.fam), "generic")

\* a document from a peer decoded into a destination of type T
UnmarshalReceived == pc = "received" /\ UnmarshalInto(T, "decoded")

\* a second document decoded into the destination the first one filled
UnmarshalAgain ==
  /\ pc = "decoded" /\ err = ""
  /\ \E d \in WireDocs :
       LET r == Unmarshal(T, d) IN
       /\ data' = d
       /\ dest' = IF IsOk(r) THEN r.val ELSE dest
       /\ err' = r.err
       /\ pc' = IF r.err = PanicUnhashable THEN "panicked" ELSE "again"
  /\ UNCHANGED <<src, T, calls, frames>>

Next == Marshal \/ UnmarshalTyped \/ UnmarshalGeneric \/ UnmarshalReceived \/ UnmarshalAgain

Spec == Init /\ [][Next]_vars

(***************************************************************************)
(* Concurrent calls.  Each call runs externallyTagged[T].UnmarshalJSON,     *)
(* Twople[A, B].UnmarshalJSON or a MarshalJSON on its own input and its own *)
(* destination; a step of a call reads and writes the locals of the call's  *)
(* frame.  The steps of different calls interleave freely.                  *)
(***************************************************************************)
NCalls == 2
\* every call with the locals of one frame
slot_shared(p) == 1
\* the frame that holds the locals of call p: each call has its own
slot(p) == p

ConcInputs ==
  LET call(s, D, d) == [pc |-> "start", src |-> s, T |-> D, data |-> d, dest |-> None, err |-> ""] IN
  {call(None, ExTagT(PayloadT("Value", "Int64")), d) :
     d \in {JObj(<< <<"Int64", JNum(5)>> >>), JObj(<< <<"Int64", JNum(0 - 1)>> >>),
            JObj(<< <<"Bool", JNum(5)>> >>), JObj(<< <<"Int64", JBool(TRUE)>> >>), JNum(5)}}
  \cup {call(None, TwopleT(Int64T, Int64T), d) :
     d \in {JArr(<<JNum(1), JNum(2)>>), JArr(<<JNum(2), JNum(1)>>),
            JArr(<<JNum(1), JBool(FALSE)>>), JArr(<<JNum(1), JNum(2), JNum(3)>>)}}
  \cup {call(s, VariantT("Value", s.t), None) : s \in {NumValue("Int64", 5), BoolValue(TRUE)}}

InitConc ==
  /\ pc = "idle" /\ src = None /\ T = None /\ data = None /\ dest = None /\ err = ""
  /\ calls \in [1..NCalls -> ConcInputs]
  /\ frames = [f \in 1..NCalls |-> [raw |-> <<>>, typedVal |-> 0, arr |-> <<>>, a |-> 0, b |-> 0]]

\* json.Unmarshal(data, &raw) / json.Unmarshal(data, &arr) into the local
Parse(p) ==
  LET c == calls[p] IN
  /\ c.pc = "start" /\ c.T.go \in {"externallyTagged", "Twople"}
  /\ IF c.T.go = "externallyTagged"
     THEN IF IsStructDoc(c.data)
          THEN /\ frames' = [frames EXCEPT ![slot(p)].raw = RawOf(c.data)]
               /\ calls' = [calls EXCEPT ![p].pc = "parsed"]
          ELSE LET r == externallyTagged_UnmarshalJSON(c.T.P, c.data) IN
               /\ calls' = [calls EXCEPT ![p].pc = "done", ![p].err = r.err,
                                         ![p].dest = IF IsOk(r) THEN [value |-> r.val] ELSE None]
               /\ UNCHANGED frames
     ELSE IF c.data.k \in {"arr", "null"}
          THEN /\ frames' = [frames EXCEPT ![slot(p)].arr = IF c.data.k = "arr" THEN c.data.a ELSE <<>>]
               /\ calls' = [calls EXCEPT ![p].pc = "parsed"]
          ELSE /\ calls' = [calls EXCEPT ![p].pc = "done", ![p].err = "UnmarshalTypeError"]
               /\ UNCHANGED frames
  /\ UNCHANGED <<pc, src, T, data, dest, err>>

\* the length test, then the components decoded into typedVal / a and b
Components(p) ==
  LET c == calls[p]
      f == frames[slot(p)]
      fail(e) == calls' = [calls EXCEPT ![p].pc = "done", ![p].err = e] /\ UNCHANGED frames
  IN
  /\ c.pc = "parsed"
  /\ IF c.T.go = "externallyTagged"
     THEN IF Cardinality(DOMAIN f.raw) # 1 THEN fail("UnexpectedKeyCount")
          ELSE LET r == Unmarshal(c.T.P, f.raw[CHOOSE x \in DOMAIN f.raw : TRUE]) IN
               IF ~IsOk(r) THEN fail(r.err)
               ELSE /\ frames' = [frames EXCEPT ![slot(p)].typedVal = r.val]
                    /\ calls' = [calls EXCEPT ![p].pc = "typed"]
     ELSE IF Len(f.arr) # 2 THEN fail("MalformedTuple")
          ELSE LET a == Unmarshal(c.T.A, f.arr[1])
                   b == Unmarshal(c.T.B, f.arr[2])
               IN IF ~IsOk(a) THEN fail(a.err)
                  ELSE IF ~IsOk(b) THEN fail(b.err)
                  ELSE /\ frames' = [frames EXCEPT ![slot(p)].a = a.val, ![slot(p)].b = b.val]
                       /\ calls' = [calls EXCEPT ![p].pc = "typed"]
  /\ UNCHANGED <<pc, src, T, data, dest, err>>

\* the key test and exTag.value = &typedVal / tup.a = a; tup.b = b
Assign(p) ==
  LET c == calls[p]
      f == frames[slot(p)]
  IN
  /\ c.pc = "typed"
  /\ calls' = IF c.T.go = "Twople"
              THEN [calls EXCEPT ![p].pc = "done", ![p].dest = Twople(f.a, f.b)]
              ELSE IF (CHOOSE x \in DOMAIN f.raw : TRUE) # tag(c.T.P)
              THEN [calls EXCEPT ![p].pc = "done", ![p].err = "TagMismatch"]
              ELSE [calls EXCEPT ![p].pc = "done", ![p].dest = [value |-> f.typedVal]]
  /\ UNCHANGED <<pc, src, T, data, dest, err, frames>>

\* a MarshalJSON call: it has no locals that outlive a step
MarshalCall(p) ==
  /\ calls[p].pc = "start" /\ calls[p].T.go = "variant"
  /\ \E d \in MarshalValue(calls[p].src) : calls' = [calls EXCEPT ![p].pc = "done", ![p].data = d]
  /\ UNCHANGED <<pc, src, T, data, dest, err, frames>>

NextConc == \E p \in 1..NCalls : Parse(p) \/ Components(p) \/ Assign(p) \/ MarshalCall(p)

SpecConc == InitConc /\ [][NextConc]_vars

(***************************************************************************)
(* The scalar-filter adapter GraphDbValueType.Parse (pkg/sharedtypes).  A   *)
(* Go string is [chars |-> its characters]; a string printed by a library   *)
(* formatter (a date, a duration, an RFC 3339 time, a UUID, a decimal, a    *)
(* float, a JSON text) keeps the fields it is printed from, [fmt, parts],   *)
(* and only the parser of that format accepts it.                           *)
(***************************************************************************)
GraphDbValueTypes ==
  {"bool", "int64", "int32", "int16", "int8", "uint64", "uint32", "uint16", "uint8", "int128",
   "double", "float", "date", "interval", "timestamp", "timestamptz", "timestampns",
   "timestampms", "timestampsec", "string", "blob", "struct", "uuid", "decimal"}

\* a switch whose default treats the value as a string
caseOf_defaultString(valType) == "String"
\* the switch of Parse: the variant of the case that handles valType
caseOf(valType) ==
  CASE valType = "bool" -> "Bool"
    [] valType = "int64" -> "Int64"
    [] valType = "int32" -> "Int32"
    [] valType = "int16" -> "Int16"
    [] valType = "int8" -> "Int8"
    [] valType = "uint64" -> "UInt64"
    [] valType = "uint32" -> "UInt32"
    [] valType = "uint16" -> "UInt16"
    [] valType = "uint8" -> "UInt8"
    [] valType = "int128" -> "Int128"
    [] valType = "double" -> "Double"
    [] valType = "float" -> "Float"
    [] valType = "date" -> "Date"
    [] valType = "interval" -> "Interval"
    [] valType = "timestamptz" -> "TimestampTz"
    [] valType = "timestampns" -> "TimestampNs"
    [] valType = "timestampms" -> "TimestampMs"
    [] valType = "timestampsec" -> "TimestampSec"
    [] valType = "string" -> "String"
    [] valType = "blob" -> "Blob"
    [] valType = "uuid" -> "UUID"
    [] valType = "decimal" -> "Decimal"
    [] OTHER -> "default"

\* the parse without the test of the range of the bit size
strconv_ParseInt_noRange(val, lo, hi) ==
  LET digits == <<"0", "1", "2", "3", "4", "5", "6", "7", "8", "9">>
      isDigit(c) == \E i \in DOMAIN digits : digits[i] = c
      chars == IF "chars" \in DOMAIN val THEN val.chars ELSE <<"?">>
      signed == lo < 0 /\ chars # <<>> /\ chars[1] \in {"+", "-"}
      body == IF signed THEN Tail(chars) ELSE chars
      mag[n \in 0..Len(body)] ==
        IF n = 0 THEN 0 ELSE 10 * mag[n - 1] + (CHOOSE i \in DOMAIN digits : digits[i] = body[n]) - 1
  IN IF body = <<>> \/ \E i \in DOMAIN body : ~isDigit(body[i]) THEN Err("ErrSyntax")
     ELSE Ok(IF signed /\ chars[1] = "-" THEN 0 - mag[Len(body)] ELSE mag[Len(body)])
\* strconv.ParseInt(val, 10, bits) for lo < 0 and strconv.ParseUint(val, 10, bits)
\* for lo = 0, lo..hi being the range of the bit size: an optional sign (ParseInt
\* only), then one or more decimal digits
strconv_ParseInt(val, lo, hi) ==
  LET digits == <<"0", "1", "2", "3", "4", "5", "6", "7", "8", "9">>
      isDigit(c) == \E i \in DOMAIN digits : digits[i] = c
      chars == IF "chars" \in DOMAIN val THEN val.chars ELSE <<"?">>
      signed == lo < 0 /\ chars # <<>> /\ chars[1] \in {"+", "-"}
      body == IF signed THEN Tail(chars) ELSE chars
      cutoff == 100000
      mag[n \in 0..Len(body)] ==
        IF n = 0 THEN 0
        ELSE LET m == 10 * mag[n - 1] + (CHOOSE i \in DOMAIN digits : digits[i] = body[n]) - 1
             IN IF m > cutoff THEN cutoff ELSE m
  IN IF body = <<>> \/ \E i \in DOMAIN body : ~isDigit(body[i]) THEN Err("ErrSyntax")
     ELSE LET n == IF signed /\ chars[1] = "-" THEN 0 - mag[Len(body)] ELSE mag[Len(body)] IN
          IF n < lo \/ n > hi THEN Err("ErrRange") ELSE Ok(n)

GraphDbValueType_Parse(valType, val) ==
  LET c == caseOf(valType)
      chars == IF "chars" \in DOMAIN val THEN val.chars ELSE <<"?">>
      lib(fmt) == IF "fmt" \in DOMAIN val /\ val.fmt = fmt THEN Ok(val.parts) ELSE Err("ParseError")
      plain == strconv_ParseInt(val, 0 - 100000, 100000)
      with(r, v) == IF IsOk(r) THEN Ok(v) ELSE r
  IN CASE c = "Bool" ->
            IF chars \in {<<"1">>, <<"t">>, <<"T">>, <<"T", "R", "U", "E">>, <<"t", "r", "u", "e">>,
                          <<"T", "r", "u", "e">>}
            THEN Ok(BoolValue(TRUE))
            ELSE IF chars \in {<<"0">>, <<"f">>, <<"F">>, <<"F", "A", "L", "S", "E">>,
                               <<"f", "a", "l", "s", "e">>, <<"F", "a", "l", "s", "e">>}
            THEN Ok(BoolValue(FALSE))
            ELSE Err("ErrSyntax")
       [] c \in SignedTags \cup UnsignedTags ->
            LET r == strconv_ParseInt(val, IntTypeOf(c).lo, IntTypeOf(c).hi) IN
            with(r, NumValue(c, r.val))
       [] c \in FloatTags ->
            LET r == IF "chars" \in DOMAIN val THEN plain ELSE lib("float") IN
            with(r, NumValue(c, r.val))
       [] c = "Date" -> LET r == lib("date") IN with(r, DateValue(r.val))
       [] c = "Interval" ->
            LET r == IF chars = <<"0">> THEN Ok(0) ELSE lib("duration") IN
            with(r, IntervalValue(r.val))
       [] c \in TimestampTags ->
            LET r == lib("rfc3339") IN
            with(r, TimeValue(c, [sec |-> r.val[1], nsec |-> FromDigits(r.val[2], FracWidth)]))
       [] c = "String" -> Ok(StringValue(val))
       [] c = "Blob" ->
            LET r == IF "chars" \in DOMAIN val THEN Err("SyntaxError") ELSE lib("json")
                b == blobValueJson_Unmarshal(r.val)
            IN IF ~IsOk(r) THEN r ELSE with(b, BlobValue(b.val))
       [] c = "UUID" -> LET r == lib("uuid") IN with(r, UUIDValue(r.val))
       [] c = "Decimal" ->
            LET r == IF "chars" \in DOMAIN val THEN with(plain, <<plain.val, 0>>) ELSE lib("decimal") IN
            with(r, DecimalValue(r.val))
       [] OTHER -> Err("unknown value type")

\* the type names and the strings a filter can carry
FilterInputs ==
  LET Str(q) == [chars |-> q]
      Text(fmt, parts) == [fmt |-> fmt, parts |-> parts]
  IN [types |-> GraphDbValueTypes \cup {"list", "array", "node", "rel", "recursiverel", "map", "union",
                                        "null", "internalid", "Bool", "Timestamp", ""},
      strings |->
        {Str(q) : q \in {<<"t", "r", "u", "e">>, <<"F", "a", "l", "s", "e">>, <<"y", "e", "s">>, <<>>,
                         <<"1">>, <<"0">>, <<"-", "6">>, <<"+", "5">>, <<"-", "0">>,
                         <<"1", "2", "7">>, <<"1", "2", "8">>, <<"-", "1", "2", "8">>,
                         <<"-", "1", "2", "9">>, <<"2", "5", "5">>, <<"2", "5", "6">>,
                         <<"9", "9", "9", "9">>, <<"-", "9", "9", "9", "9">>, <<"1", "2", "a">>}}
        \cup {Text("date", <<2025, 4, 23>>), Text("duration", 5), Text("duration", minDuration),
              Text("rfc3339", <<1745414781, <<1, 2, 3>> >>), Text("rfc3339", <<5, <<>> >>),
              Text("uuid", <<143, 145, 75, 206>>), Text("decimal", <<1234, 2>>), Text("float", 90),
              Text("json", JArr(<<JNum(0), JNum(1), JNum(255)>>)), Text("json", JArr(<<>>)),
              Text("json", JArr(<<JNum(256)>>)), Text("json", JObj(<<>>))}]

InitParse ==
  /\ pc = "filter"
  /\ T \in FilterInputs.types
  /\ src \in FilterInputs.strings
  /\ data = None /\ dest = None /\ err = ""
  /\ calls = <<>> /\ frames = <<>>

\* valType.Parse(val)
ParseFilter ==
  /\ pc = "filter"
  /\ LET r == GraphDbValueType_Parse(T, src) IN dest' = r.val /\ err' = r.err
  /\ pc' = "parsed"
  /\ UNCHANGED <<src, T, data, calls, frames>>

SpecParse == InitParse /\ [][ParseFilter]_vars

(***************************************************************************)
(* Tool-call converters (pkg/toolconverters).  A value held in an           *)
(* interface{} keeps its dynamic Go type; a Go map is nil (Nil) or its      *)
(* entries.  A Go string that is read as JSON is "", the document it        *)
(* spells, or text that spells none.  An error made with fmt.Errorf keeps   *)
(* the fields it was formatted from.                                        *)
(***************************************************************************)
MaxToolCalls == 2

GoValue(go, v) == [go |-> go, v |-> v]

\* json.Marshal(tc.Input): the members in the byte order of their names
json_Marshal(input) ==
  LET sortedKeys == <<"boolArg", "numberArg", "stringArg">>
      enc(x) == CASE x.go = "string" -> JStr(x.v)
                  [] x.go = "bool" -> JBool(x.v)
                  [] x.go \in {"float64", "int"} -> JNum(x.v)
                  [] x.go = "nil" -> JNull
      present == IF input = Nil THEN <<>> ELSE SelectSeq(sortedKeys, LAMBDA key : key \in DOMAIN input.entries)
  IN IF input = Nil THEN Ok([text |-> "json", doc |-> JNull])
     ELSE IF \E key \in DOMAIN input.entries : input.entries[key].go = "chan"
       THEN Err("json: unsupported type: chan int")
     ELSE Ok([text |-> "json",
              doc |-> JObj([i \in DOMAIN present |-> <<present[i], enc(input.entries[present[i]])>>])])

\* json.Unmarshal([]byte(arguments), &args) with args a nil map[string]interface{}
json_Unmarshal(arguments) ==
  LET dec(d) == CASE d.k = "str" -> GoValue("string", d.s)
                  [] d.k = "bool" -> GoValue("bool", d.b)
                  [] d.k = "num" -> GoValue("float64", d.n)
                  [] d.k = "null" -> GoValue("nil", 0)
  IN CASE arguments.text = "" -> Err("unexpected end of JSON input")
       [] arguments.text # "json" -> Err("invalid character 'i' looking for beginning of object key string")
       [] arguments.doc.k = "null" -> Ok(Nil)
       [] arguments.doc.k = "obj" ->
            Ok([entries |-> [key \in Keys(arguments.doc.m) |-> dec(ToRaw(arguments.doc.m)[key])]])
       [] OTHER -> Err("json: cannot unmarshal into Go value of type map[string]interface {}")

\* the arguments parsed without the empty-string case
args_parseEmpty(tc) == json_Unmarshal(tc.Function.Arguments)
\* the arguments of one tool call: "" stands for a tool without parameters
args(tc) ==
  IF tc.Function.Arguments.text = "" THEN Ok([entries |-> [key \in {} |-> None]])
  ELSE json_Unmarshal(tc.Function.Arguments)

ConvertOpenAIToolCallsToSharedTypes(openaiToolCalls) ==
  LET index == [i \in DOMAIN openaiToolCalls |-> i]
      good == SelectSeq(index, LAMBDA i : IsOk(args(openaiToolCalls[i])))
      bad == SelectSeq(index, LAMBDA i : ~IsOk(args(openaiToolCalls[i])))
  IN [toolCalls |-> [j \in DOMAIN good |->
                       LET tc == openaiToolCalls[good[j]]
                       IN [ID |-> tc.ID, Type |-> tc.Type, Name |-> tc.Function.Name, Input |-> args(tc).val]],
      errors |-> [j \in DOMAIN bad |->
                    LET tc == openaiToolCalls[bad[j]]
                    IN [msg |-> "failed to parse tool call", index |-> bad[j] - 1, ID |-> tc.ID,
                        Name |-> tc.Function.Name, err |-> args(tc).err, raw |-> tc.Function.Arguments]]]

\* the converter with the identifier and the name exchanged
ConvertSharedTypesToOpenAIToolCalls_exchanged(toolCalls) ==
  LET index == [i \in DOMAIN toolCalls |-> i]
      good == SelectSeq(index, LAMBDA i : IsOk(json_Marshal(toolCalls[i].Input)))
  IN [openaiToolCalls |-> [j \in DOMAIN good |->
                             LET tc == toolCalls[good[j]]
                             IN [ID |-> tc.Name,
                                 Function |-> [Name |-> tc.ID, Arguments |-> json_Marshal(tc.Input).val]]],
      errors |-> <<>>]
ConvertSharedTypesToOpenAIToolCalls(toolCalls) ==
  LET index == [i \in DOMAIN toolCalls |-> i]
      good == SelectSeq(index, LAMBDA i : IsOk(json_Marshal(toolCalls[i].Input)))
      bad == SelectSeq(index, LAMBDA i : ~IsOk(json_Marshal(toolCalls[i].Input)))
  IN [openaiToolCalls |-> [j \in DOMAIN good |->
                             LET tc == toolCalls[good[j]]
                             IN [ID |-> tc.ID,
                                 Function |-> [Name |-> tc.Name, Arguments |-> json_Marshal(tc.Input).val]]],
      errors |-> [j \in DOMAIN bad |->
                    LET tc == toolCalls[bad[j]]
                    IN [msg |-> "failed to serialize tool call arguments", index |-> bad[j] - 1, ID |-> tc.ID,
                        Name |-> tc.Name, err |-> json_Marshal(tc.Input).err]]]

\* the lists of tool calls the converters are given
ToolInputs ==
  LET Map(keys, number) ==
        [entries |-> [key \in keys |-> CASE key = "stringArg" -> GoValue("string", "value")
                                         [] key = "numberArg" -> number
                                         [] key = "boolArg" -> GoValue("bool", TRUE)]]
      numbers == {GoValue("float64", 42), GoValue("int", 42), GoValue("nil", 0), [go |-> "chan"]}
      inputs == {Nil, Map({}, GoValue("nil", 0)), Map({"stringArg"}, GoValue("nil", 0))}
                  \cup {Map({"numberArg"}, number) : number \in numbers}
                  \cup {Map({"stringArg", "numberArg", "boolArg"}, GoValue("float64", 42))}
      names == {<<"call_1", "tool1">>, <<"call_2", "tool2">>, <<"call_1", "tool2">>}
      Doc(d) == [text |-> "json", doc |-> d]
      arguments == {[text |-> ""], [text |-> "{invalid json"], Doc(JNull), Doc(JArr(<<JNum(1)>>)),
                    Doc(JObj(<<>>)), Doc(JObj(<< <<"stringArg", JStr("MAPDL")>> >>)),
                    Doc(JObj(<< <<"numberArg", JNum(1)>>, <<"numberArg", JNum(42)>> >>))}
      Lists(S) == UNION {[1..n -> S] : n \in 0..MaxToolCalls}
  IN [shared |-> Lists({[ID |-> nm[1], Type |-> "function", Name |-> nm[2], Input |-> input] :
                          nm \in names, input \in inputs}),
      openai |-> Lists({[ID |-> nm[1], Type |-> "function", Function |-> [Name |-> nm[2], Arguments |-> a]] :
                          nm \in names, a \in arguments})]

InitTools ==
  /\ \/ /\ pc = "shared" /\ T = "shared"
        /\ src \in ToolInputs.shared /\ data = <<>>
     \/ /\ pc = "openai" /\ T = "openai"
        /\ src = <<>> /\ data \in ToolInputs.openai
  /\ dest = <<>> /\ err = <<>>
  /\ calls = <<>> /\ frames = <<>>

\* ConvertSharedTypesToOpenAIToolCalls(ctx, src), each param then read as the
\* tool call of a response
ToOpenAI ==
  /\ pc = "shared"
  /\ LET r == ConvertSharedTypesToOpenAIToolCalls(src)
     IN /\ data' = [i \in DOMAIN r.openaiToolCalls |->
                      LET param == r.openaiToolCalls[i]
                      IN [ID |-> param.ID, Type |-> "function",
                          Function |-> [Name |-> param.Function.Name, Arguments |-> param.Function.Arguments]]]
        /\ err' = r.errors
  /\ pc' = "openai"
  /\ UNCHANGED <<src, T, dest, calls, frames>>

\* ConvertOpenAIToolCallsToSharedTypes(ctx, data)
FromOpenAI ==
  /\ pc = "openai"
  /\ LET r == ConvertOpenAIToolCallsToSharedTypes(data)
     IN dest' = r.toolCalls /\ err' = r.errors
  /\ pc' = "converted"
  /\ UNCHANGED <<src, T, data, calls, frames>>

NextTools == ToOpenAI \/ FromOpenAI
SpecTools == InitTools /\ [][NextTools]_vars

(***************************************************************************)
(* StreamFunction (pkg/clients/flowkitclient) and the goroutine it starts.  *)
(*   src     what the environment does: which call fails, and the messages  *)
(*           of the server stream with the way the stream ends             *)
(*   pc      fn: the caller's position; recv: the goroutine's; range: the   *)
(*           consumer's                                                     *)
(*   data    the buffer of the channel                                      *)
(*   dest    the values the consumer has taken from the channel             *)
(*   err     the error StreamFunction returned                              *)
(*   calls   who called conn.Close() and cancel(), the goroutines started,  *)
(*           and whether the channel is closed                              *)
(*   frames  the goroutine's locals: the messages received, the values sent *)
(* The channel holds 400 values; here it holds ChanCap.                     *)
(***************************************************************************)
MaxStream == 2
ChanCap == 1

\* the outcomes of the calls StreamFunction makes, and the server's stream
StreamInputs ==
  LET messages == [Value : {"a", "b"}, IsLast : BOOLEAN]
      scripts == UNION {[1..n -> messages] : n \in 0..MaxStream}
      conversions == UNION {[1..n -> {"ok", "absent", "err", "unknownType"}] : n \in 0..2}
      Env(found, connect, metadata, inputs, grpc, script, end) ==
        [found |-> found, connect |-> connect, metadata |-> metadata, inputs |-> inputs,
         grpc |-> grpc, script |-> script, end |-> end]
  IN {Env(found, connect, metadata, inputs, grpc, <<>>, "EOF") :
        found \in BOOLEAN, connect \in BOOLEAN, metadata \in BOOLEAN, inputs \in conversions,
        grpc \in BOOLEAN}
     \cup {Env(TRUE, TRUE, TRUE, inputs, TRUE, script, end) :
             inputs \in {<<>>, <<"ok", "absent">>}, script \in scripts, end \in {"EOF", "error"}}

InitStream ==
  /\ src \in StreamInputs
  /\ pc = [fn |-> "call", recv |-> "none", range |-> "none"]
  /\ T = None
  /\ data = <<>> /\ dest = <<>> /\ err = ""
  /\ calls = [Close |-> <<>>, cancel |-> <<>>, goroutines |-> 0, closed |-> FALSE]
  /\ frames = [received |-> <<>>, sent |-> <<>>]

\* StreamFunction without cancel() where the gRPC call fails
StreamFunction_noCancel ==
  /\ pc.fn = "call"
  /\ LET failed == {i \in DOMAIN src.inputs : src.inputs[i] \in {"err", "unknownType"}}
         first == CHOOSE i \in failed : \A j \in failed : i <= j
         e == CASE ~src.found -> "function not found in available functions"
                [] ~src.connect -> "unable to connect to external function gRPC"
                [] ~src.metadata -> "error adding metadata"
                [] failed # {} /\ src.inputs[first] = "err" -> "error converting input to string"
                [] failed # {} -> "type does not exist in typeconverters.ConvertGivenTypeToString"
                [] ~src.grpc -> "error in external function gRPC StreamFunction"
                [] OTHER -> ""
         released == src.found /\ src.connect /\ e # ""
     IN /\ err' = e
        /\ calls' = [calls EXCEPT
             !.Close = IF released THEN Append(@, "StreamFunction") ELSE @,
             !.cancel = IF released /\ (~src.metadata \/ failed # {}) THEN Append(@, "StreamFunction") ELSE @,
             !.goroutines = IF e = "" THEN @ + 1 ELSE @]
        /\ pc' = [pc EXCEPT !.fn = "returned",
                            !.recv = IF e = "" THEN "Recv" ELSE @,
                            !.range = IF e = "" THEN "range" ELSE @]
  /\ UNCHANGED <<src, T, data, dest, frames>>
\* StreamFunction(ctx, functionName, inputs): the first call that fails decides
\* the error; after the connection exists every error path closes it and
\* cancels the context; without an error the goroutine is started
StreamFunction ==
  /\ pc.fn = "call"
  /\ LET failed == {i \in DOMAIN src.inputs : src.inputs[i] \in {"err", "unknownType"}}
         first == CHOOSE i \in failed : \A j \in failed : i <= j
         e == CASE ~src.found -> "function not found in available functions"
                [] ~src.connect -> "unable to connect to external function gRPC"
                [] ~src.metadata -> "error adding metadata"
                [] failed # {} /\ src.inputs[first] = "err" -> "error converting input to string"
                [] failed # {} -> "type does not exist in typeconverters.ConvertGivenTypeToString"
                [] ~src.grpc -> "error in external function gRPC StreamFunction"
                [] OTHER -> ""
         released == src.found /\ src.connect /\ e # ""
     IN /\ err' = e
        /\ calls' = [calls EXCEPT
             !.Close = IF released THEN Append(@, "StreamFunction") ELSE @,
             !.cancel = IF released THEN Append(@, "StreamFunction") ELSE @,
             !.goroutines = IF e = "" THEN @ + 1 ELSE @]
        /\ pc' = [pc EXCEPT !.fn = "returned",
                            !.recv = IF e = "" THEN "Recv" ELSE @,
                            !.range = IF e = "" THEN "range" ELSE @]
  /\ UNCHANGED <<src, T, data, dest, frames>>

\* res, err := stream.Recv(): the next message, or nil and the error or io.EOF
\* with which the stream ends
Recv ==
  /\ pc.recv = "Recv"
  /\ LET n == Len(frames.received) + 1
         res == IF n <= Len(src.script) THEN src.script[n] ELSE Nil
     IN frames' = [frames EXCEPT !.received = Append(@, res)]
  /\ pc' = [pc EXCEPT !.recv = "send"]
  /\ UNCHANGED <<src, T, data, dest, err, calls>>

\* the send that leaves the loop before sending the last value
Send_breakFirst ==
  /\ pc.recv = "send"
  /\ LET res == frames.received[Len(frames.received)] IN
     IF res = Nil
     THEN /\ pc' = [pc EXCEPT !.recv = "returned"]
          /\ UNCHANGED <<data, calls, frames>>
     ELSE IF res.IsLast
     THEN /\ calls' = [calls EXCEPT !.Close = Append(@, "receiver"), !.cancel = Append(@, "receiver"),
                                    !.closed = TRUE]
          /\ pc' = [pc EXCEPT !.recv = "returned"]
          /\ UNCHANGED <<data, frames>>
     ELSE /\ Len(data) < ChanCap
          /\ data' = Append(data, res.Value)
          /\ frames' = [frames EXCEPT !.sent = Append(@, res.Value)]
          /\ pc' = [pc EXCEPT !.recv = "Recv"]
          /\ UNCHANGED calls
  /\ UNCHANGED <<src, T, dest, err>>
\* *streamChannel <- res.Value and the rest of the iteration: res.Value of a
\* nil res panics, the deferred function recovers and the goroutine returns;
\* the send waits for room in the channel; after the last value the loop is
\* left and the connection, the context and the channel are closed
Send ==
  /\ pc.recv = "send"
  /\ LET res == frames.received[Len(frames.received)] IN
     IF res = Nil
     THEN /\ pc' = [pc EXCEPT !.recv = "returned"]
          /\ UNCHANGED <<data, calls, frames>>
     ELSE /\ Len(data) < ChanCap
          /\ data' = Append(data, res.Value)
          /\ frames' = [frames EXCEPT !.sent = Append(@, res.Value)]
          /\ IF res.IsLast
             THEN /\ calls' = [calls EXCEPT !.Close = Append(@, "receiver"),
                                            !.cancel = Append(@, "receiver"), !.closed = TRUE]
                  /\ pc' = [pc EXCEPT !.recv = "returned"]
             ELSE /\ pc' = [pc EXCEPT !.recv = "Recv"]
                  /\ UNCHANGED calls
  /\ UNCHANGED <<src, T, dest, err>>

\* the caller ranging over the channel: the next value, or the end of the
\* range once the channel is closed and empty
Consume ==
  /\ pc.range = "range"
  /\ \/ /\ data # <<>>
        /\ dest' = Append(dest, Head(data))
        /\ data' = Tail(data)
        /\ UNCHANGED pc
     \/ /\ data = <<>> /\ calls.closed
        /\ pc' = [pc EXCEPT !.range = "done"]
        /\ UNCHANGED <<data, dest>>
  /\ UNCHANGED <<src, T, err, calls, frames>>

NextStream == StreamFunction \/ Recv \/ Send \/ Consume
SpecStream == InitStream /\ [][NextStream]_vars

(***************************************************************************)
(* Properties.                                                              *)
(***************************************************************************)
\* the payload of a single-member tagged object
PayloadOf(d) == d.m[1][2]

\* C1: for every Value variant and every value v of it, nested ones included,
\* decoding an encoding of v with the variant's typed decoder succeeds and
\* yields a value equal to v.
C1_ValueRoundTrip ==
  (pc = "typed" /\ T.fam = "Value") => (err = "" /\ dest = src)

\* C2: for every LogicalType t, decode(encode(t)) = t, and the fields of a Struct
\* or Union keep their positions: the i-th pair of the encoded array and the i-th
\* pair of the decoded value are the i-th (name, type) pair of the original.
C2_LogicalTypeRoundTrip ==
  (pc = "typed" /\ T.fam = "LogicalType") =>
    /\ err = ""
    /\ dest = src
    /\ T.tag \in {"Struct", "Union"} =>
         LET wire == PayloadOf(PayloadOf(data)) IN
         /\ wire.k = "arr"
         /\ Len(wire.a) = Len(src.Fields)
         /\ Len(dest.Fields) = Len(src.Fields)
         /\ \A i \in DOMAIN src.Fields :
              /\ wire.a[i] = JArr(<<JStr(src.Fields[i].a), MarshalLogicalType(src.Fields[i].b)>>)
              /\ dest.Fields[i].a = src.Fields[i].a
              /\ dest.Fields[i].b = src.Fields[i].b
C2_Witness ==
  /\ pc = "typed" /\ T = VariantT("LogicalType", "Struct") /\ err = ""
  /\ Len(src.Fields) = 3 /\ src.Fields[1].a = "items" /\ src.Fields[3].a = "name"
  /\ dest.Fields[1].a = "items"

\* C3: whichever order the encoder chose for the pairs of a StructValue, of a
\* MapValue's pairs or of a UnionValue's types, the payload decodes to the
\* encoded value: all the orders decode to the same value.
MapBacked == {"Struct", "Map", "Union"}
C3_KeyOrderInvariance ==
  /\ (pc = "typed" /\ T.fam = "Value" /\ T.tag \in MapBacked) => (err = "" /\ dest = src)
  /\ (pc = "marshalled" /\ T.fam = "Value" /\ T.tag \in MapBacked) =>
       \A e \in MarshalValue(src) : Unmarshal(T, e) = Unmarshal(T, data)
C3_Witness ==
  /\ pc = "typed" /\ T = VariantT("Value", "Struct") /\ err = "" /\ dest = src
  /\ Len(PayloadOf(data).a) = 3
  /\ PayloadOf(data).a[1].a[1] = JStr("name")
  /\ \E e \in MarshalValue(src) : PayloadOf(e).a[1].a[1] = JStr("a")

\* C4: a variant without payload is encoded as the bare string of its tag, a
\* variant with a payload as an object of exactly one member, whose name is the
\* tag and whose value is the encoded payload.
C4_ExternallyTaggedEncode ==
  pc = "marshalled" =>
    IF T.fam = "LogicalType" /\ T.tag \in UnitLogicalTypes
    THEN data = JStr(T.tag)
    ELSE /\ data.k = "obj"
         /\ Len(data.m) = 1
         /\ data.m[1][1] = T.tag
         /\ T.fam = "Value" => PayloadOf(data) \in MarshalPayload(src)
         /\ T.fam = "LogicalType" => PayloadOf(data).k = "obj"
C4_Witness ==
  /\ pc = "marshalled" /\ src = NullValue(UnitLT("Any"))
  /\ data = JObj(<< <<"Null", JStr("Any")>> >>)

\* C5: the externally-tagged decoder returns an error and leaves its destination
\* untouched for (a) an object with no or with more than one member name, (b) an
\* object with one member whose name is not the expected tag, (c) a string that
\* is not the expected tag, (d) a document that is neither object nor string.
Rejected(expected, d) ==
  \/ d.k = "obj" /\ Cardinality(Keys(d.m)) # 1
  \/ d.k = "obj" /\ Keys(d.m) # {expected}
  \/ d.k = "str" /\ d # JStr(expected)
  \/ d.k \notin {"obj", "str"}
C5_TaggedDecodeRejects ==
  (pc = "decoded" /\ T.go = "externallyTagged" /\ Rejected(T.P.tag, data)) =>
    (err # "" /\ dest = None)
C5_Witness ==
  /\ pc = "decoded" /\ T = ExTagT(PayloadT("Value", "Int64"))
  /\ data = JObj(<< <<"Int32", JNum(5)>> >>)
  /\ err = "TagMismatch"

\* C6: the tuple decoder succeeds only on an array of exactly two elements; an
\* array of any other length fails with the malformed-tuple error; on success
\* the first element is the first component and the second the second.
C6_TupleDecode ==
  (pc = "decoded" /\ T.go = "Twople") =>
    /\ err = "" => (data.k = "arr" /\ Len(data.a) = 2)
    /\ (data.k = "arr" /\ Len(data.a) # 2) => (err = "MalformedTuple" /\ dest = None)
    /\ (err = "" /\ T.A.go = "int") => dest = Twople(data.a[1].n, data.a[2].n)
    /\ (err = "" /\ T.A.go = "string") =>
         (dest.a = data.a[1].s /\ Ok(dest.b) = Unmarshal(T.B, data.a[2]))
C6_Witness ==
  /\ pc = "decoded" /\ T = TwopleT(Int64T, Int64T)
  /\ data = JArr(<<JNum(1), JNum(2)>>) /\ dest = Twople(1, 2)

\* C7: for every duration d of the signed 64-bit nanosecond range, the extremes
\* included, decoding the pair produced by encoding d yields exactly d.
C7_IntervalExact ==
  (pc = "typed" /\ T = VariantT("Value", "Interval")) => (err = "" /\ dest.d = src.d)

\* C8: for every Value variant and every encoding produced by its encoder, the
\* generic decoder succeeds and returns a value of the variant that the typed
\* decoder returns for the same encoding.
C8_GenericMatchesTyped ==
  (pc = "generic" /\ T.fam = "Value") =>
    /\ err = ""
    /\ dest.t = src.t
    /\ LET typed == Unmarshal(T, data) IN IsOk(typed) /\ typed.val.t = dest.t
C8_Witness ==
  /\ pc = "generic" /\ T = VariantT("Value", "Map") /\ err = "" /\ dest.t = "Map"
  /\ Cardinality(DOMAIN src.Pairs) = 2

\* C9: the generic decoder fails with the unknown-tag error and yields no value
\* when the tag of the input is not one of the closed set; when the tag is in
\* the set and the payload is malformed for that variant, it fails with that
\* variant's own decode error.
HasTag(d) == IsPlainStr(d) \/ (d.k = "obj" /\ Cardinality(Keys(d.m)) = 1)
TagOfDoc(d) == IF d.k = "str" THEN d.s ELSE CHOOSE x \in Keys(d.m) : TRUE
TagsOf(T0) == IF T0 = valueUnmarshalHelper THEN valtypes ELSE logtypes
FamOfHelper(T0) == IF T0 = valueUnmarshalHelper THEN "Value" ELSE "LogicalType"
C10_TypedCollectionOrder ==
  /\ (pc = "marshalled" /\ T.fam = "Value" /\ T.tag \in {"List", "Array"}) =>
       LET p == PayloadOf(data) IN
       /\ p.k = "arr" /\ Len(p.a) = 2
       /\ p.a[1] = MarshalLogicalType(src.LogicalType)
       /\ p.a[2].k = "arr" /\ Len(p.a[2].a) = Len(src.Values)
       /\ \A i \in DOMAIN src.Values : p.a[2].a[i] \in MarshalValue(src.Values[i])
  /\ (pc = "marshalled" /\ T = VariantT("Value", "Map")) =>
       LET p == PayloadOf(data) IN
       /\ p.k = "arr" /\ Len(p.a) = 2
       /\ p.a[1] = JArr(<<MarshalLogicalType(src.KeyType), MarshalLogicalType(src.ValueType)>>)
       /\ p.a[2].k = "arr" /\ Len(p.a[2].a) = Cardinality(DOMAIN src.Pairs)
       /\ \A i \in DOMAIN p.a[2].a :
            /\ p.a[2].a[i].k = "arr" /\ Len(p.a[2].a[i].a) = 2
            /\ \E key \in DOMAIN src.Pairs :
                 /\ p.a[2].a[i].a[1] \in MarshalValue(key)
                 /\ p.a[2].a[i].a[2] \in MarshalValue(src.Pairs[key])
  /\ (pc = "typed" /\ T.fam = "Value" /\ T.tag \in {"List", "Array"}) =>
       (err = "" /\ dest.LogicalType = src.LogicalType /\ dest.Values = src.Values)
  /\ (pc = "typed" /\ T = VariantT("Value", "Map")) =>
       (err = "" /\ dest.KeyType = src.KeyType /\ dest.ValueType = src.ValueType
          /\ dest.Pairs = src.Pairs)
  /\ (pc = "decoded" /\ T = VariantT("Value", "List") /\ err = "") =>
       LET p == PayloadOf(data) IN
       /\ Ok(dest.LogicalType) = Unmarshal(logicalTypeUnmarshalHelper, p.a[1])
       /\ Ok(dest.Values) = Unmarshal(valueArrayJson, p.a[2])
C10_Witness ==
  /\ pc = "typed" /\ T = VariantT("Value", "List") /\ err = ""
  /\ src.Values = <<NumValue("UInt64", 12), NumValue("UInt64", 0)>>
  /\ PayloadOf(data).a[1] = JStr("UInt64")
  /\ PayloadOf(data).a[2].a[1] = JObj(<< <<"UInt64", JNum(12)>> >>)
  /\ dest = src


\* C11: a BlobValue of n bytes is encoded as {"Blob": [b0, ..., b(n-1)]}: an
\* array of n numbers in the bytes' order, each the byte's value in 0..255, and
\* never a (base64) string.
C11_BlobWireForm ==
  (pc \in {"marshalled", "typed", "generic"} /\ T = VariantT("Value", "Blob")) =>
    /\ data.k = "obj" /\ Len(data.m) = 1 /\ data.m[1][1] = "Blob"
    /\ LET p == PayloadOf(data) IN
       /\ p.k = "arr"
       /\ Len(p.a) = Len(src.bytes)
       /\ \A i \in DOMAIN p.a : p.a[i] = JNum(src.bytes[i]) /\ src.bytes[i] \in 0..255
C11_Witness ==
  /\ pc = "marshalled" /\ src = BlobValue(<<0, 1, 2, 3, 4>>)
  /\ data = JObj(<< <<"Blob", JArr(<<JNum(0), JNum(1), JNum(2), JNum(3), JNum(4)>>)>> >>)

\* C12: when a nested component of a document does not decode (a tuple
\* component, an element of a value array, a key or a value of a value map, a
\* part of a map value, the payload of a tagged wrapper), the enclosing decode
\* returns an error and its destination keeps the contents it had before.
ComponentFails(D, d) ==
  LET fails(E, x) == ~IsOk(Unmarshal(E, x))
      h == valueUnmarshalHelper
      l == logicalTypeUnmarshalHelper
  IN CASE D.go = "Twople" ->
            d.k = "arr" /\ Len(d.a) = 2 /\ (fails(D.A, d.a[1]) \/ fails(D.B, d.a[2]))
       [] D.go = "valueArrayJson" ->
            d.k = "arr" /\ \E i \in DOMAIN d.a : fails(h, d.a[i])
       [] D.go = "valueMapJson" ->
            d.k = "arr" /\ \E i \in DOMAIN d.a :
              d.a[i].k = "arr" /\ Len(d.a[i].a) = 2 /\ (fails(h, d.a[i].a[1]) \/ fails(h, d.a[i].a[2]))
       [] D = PayloadT("Value", "Map") ->
            d.k = "arr" /\ Len(d.a) = 2 /\ (fails(TwopleT(l, l), d.a[1]) \/ fails(valueMapJson, d.a[2]))
       [] D.go = "externallyTagged" ->
            d.k = "obj" /\ Cardinality(Keys(d.m)) = 1 /\ fails(D.P, ToRaw(d.m)[d.m[1][1]])
       [] OTHER -> FALSE
C12_AllOrNothing ==
  [][(pc' \in {"decoded", "again"} /\ ComponentFails(T', data')) => (err' # "" /\ dest' = dest)]_vars
C12_Witness ==
  /\ pc = "again" /\ T = valueMapJson /\ err # ""
  /\ data \in NestedPayloads /\ ComponentFails(T, data)
  /\ dest = [key \in {NumValue("UInt64", 12)} |-> BoolValue(TRUE)]

\* C13: decoding a Map payload whose keys are composite Values (a BlobValue, a
\* ListValue, a StructValue, a nested MapValue, ...) completes normally, and each
\* decoded pair is found under the key that is structurally equal to its own.
C13_CompositeMapKeys ==
  LET h == valueUnmarshalHelper
      pairs == IF T = valueMapJson THEN data ELSE data.a[2]
  IN (/\ pc \in {"decoded", "again", "panicked"}
      /\ \/ T = valueMapJson /\ data \in CompositeKeyPairs
         \/ T = PayloadT("Value", "Map") /\ data.k = "arr" /\ Len(data.a) = 2
            /\ data.a[2] \in CompositeKeyPairs)
     => /\ pc # "panicked"
        /\ err = ""
        /\ LET m == IF T = valueMapJson THEN dest ELSE dest.Pairs IN
           \A i \in DOMAIN pairs.a :
             LET key == Unmarshal(h, pairs.a[i].a[1]).val IN
             key \in DOMAIN m /\ m[key] = Unmarshal(h, pairs.a[i].a[2]).val

\* C14: under every interleaving of concurrent calls on distinct inputs and
\* destinations, a call that has returned has the result it has when run alone.
C14_ConcurrentCalls ==
  \A p \in DOMAIN calls :
    LET c == calls[p] IN
    c.pc = "done" =>
      IF c.T.go = "variant" THEN c.data \in MarshalValue(c.src)
      ELSE LET r == Unmarshal(c.T, c.data) IN
           /\ c.err = r.err
           /\ c.dest = IF IsOk(r) THEN r.val ELSE None
C14_Witness ==
  /\ calls # <<>>
  /\ \A p \in DOMAIN calls : calls[p].pc = "done"
  /\ calls[1].T = ExTagT(PayloadT("Value", "Int64")) /\ calls[1].dest = [value |-> NumValue("Int64", 5)]
  /\ calls[2].T = ExTagT(PayloadT("Value", "Int64")) /\ calls[2].dest = [value |-> NumValue("Int64", 0 - 1)]

\* C15: for every scalar type name the adapter declares and every string that is
\* well formed for that scalar, Parse returns a nil error and a Value of the
\* corresponding variant.
WellFormed(valType) ==
  LET Str(q) == [chars |-> q]
      small == {Str(<<"1">>), Str(<<"0">>), Str(<<"1", "2", "7">>)}
      signed == small \cup {Str(<<"-", "6">>), Str(<<"+", "5">>), Str(<<"-", "0">>), Str(<<"-", "1", "2", "8">>)}
      unsigned == small \cup {Str(<<"1", "2", "8">>), Str(<<"2", "5", "5">>)}
      of(fmt) == {s \in FilterInputs.strings : "fmt" \in DOMAIN s /\ s.fmt = fmt}
  IN CASE valType = "bool" -> {Str(<<"t", "r", "u", "e">>), Str(<<"F", "a", "l", "s", "e">>), Str(<<"1">>), Str(<<"0">>)}
       [] valType \in {"int64", "int32", "int16", "int8", "int128"} -> signed
       [] valType \in {"uint64", "uint32", "uint16", "uint8"} -> unsigned
       [] valType \in {"double", "float"} -> signed \cup unsigned \cup of("float")
       [] valType = "date" -> of("date")
       [] valType = "interval" -> of("duration") \cup {Str(<<"0">>)}
       [] valType \in {"timestamp", "timestamptz", "timestampns", "timestampms", "timestampsec"} -> of("rfc3339")
       [] valType = "string" -> FilterInputs.strings
       [] valType = "blob" -> {s \in of("json") : s.parts.k = "arr" /\ \A i \in DOMAIN s.parts.a : s.parts.a[i].n \in 0..255}
       [] valType = "uuid" -> of("uuid")
       [] valType = "decimal" -> of("decimal") \cup signed \cup unsigned
       [] OTHER -> {}
VariantOf(valType) ==
  [bool |-> "Bool", int64 |-> "Int64", int32 |-> "Int32", int16 |-> "Int16", int8 |-> "Int8",
   uint64 |-> "UInt64", uint32 |-> "UInt32", uint16 |-> "UInt16", uint8 |-> "UInt8",
   int128 |-> "Int128", double |-> "Double", float |-> "Float", date |-> "Date",
   interval |-> "Interval", timestamp |-> "Timestamp", timestamptz |-> "TimestampTz",
   timestampns |-> "TimestampNs", timestampms |-> "TimestampMs", timestampsec |-> "TimestampSec",
   string |-> "String", blob |-> "Blob", uuid |-> "UUID", decimal |-> "Decimal"][valType]
C15_FilterSupportedTypes ==
  (pc = "parsed" /\ T \in GraphDbValueTypes \ {"struct"} /\ src \in WellFormed(T)) =>
    (err = "" /\ dest.t = VariantOf(T))

\* C16: for a structural or unknown type name (list, array, struct, node, rel,
\* map, union, null, internalid, or any string that is no supported scalar),
\* Parse returns a non-nil error and a nil Value, whatever the string.
C16_FilterUnsupportedTypes ==
  (pc = "parsed" /\ T \notin GraphDbValueTypes \ {"struct"}) => (err # "" /\ dest = None)
C16_Witness ==
  pc = "parsed" /\ T = "struct" /\ src = [chars |-> <<"1">>] /\ err = "unknown value type" /\ dest = None
\* the j-th smallest member of a set of indices
Nth(S, j) == CHOOSE i \in S : Cardinality({x \in S : x < i}) = j - 1

\* C17: ConvertOpenAIToolCallsToSharedTypes accounts for every tool call it
\* is given exactly once: the results and the errors together are as many as
\* the inputs, the results are some of the inputs in their order, a call with
\* the empty arguments string is among them with an empty Input map, and a
\* call whose arguments are no JSON is not among them and has exactly one error.
C17_ToolCallAccounting ==
  pc = "converted" =>
    /\ Len(dest) + Len(err) = Len(data)
    /\ \E S \in SUBSET DOMAIN data :
         /\ Cardinality(S) = Len(dest)
         /\ \A j \in DOMAIN dest :
              /\ dest[j].ID = data[Nth(S, j)].ID
              /\ dest[j].Name = data[Nth(S, j)].Function.Name
              /\ data[Nth(S, j)].Function.Arguments.text = "" => DOMAIN dest[j].Input.entries = {}
         /\ \A i \in DOMAIN data :
              /\ data[i].Function.Arguments.text = ""
                   => i \in S /\ \A j \in DOMAIN err : err[j].index # i - 1
              /\ data[i].Function.Arguments.text \notin {"", "json"}
                   => i \notin S /\ Cardinality({j \in DOMAIN err : err[j].index = i - 1}) = 1
C17_Witness ==
  /\ pc = "converted" /\ T = "openai" /\ Len(data) = 2
  /\ data[1].Function.Arguments.text = "{invalid json"
  /\ data[2].Function.Arguments.text = ""
  /\ Len(dest) = 1 /\ dest[1].ID = data[2].ID /\ DOMAIN dest[1].Input.entries = {}
  /\ Len(err) = 1 /\ err[1].index = 0

\* the entries of a Go map; a nil map has none
Entries(input) == IF input = Nil THEN [key \in {} |-> None] ELSE input.entries
\* json.Marshal accepts every value of the map
Serialisable(input) == \A key \in DOMAIN Entries(input) : Entries(input)[key].go # "chan"
\* the values are of the Go types encoding/json stores in an interface{}
DecodedKinds(input) == \A key \in DOMAIN Entries(input) : Entries(input)[key].go \in {"nil", "bool", "float64", "string"}
RoundTripped ==
  /\ err = <<>>
  /\ Len(dest) = Len(src)
  /\ \A i \in DOMAIN src :
       dest[i].ID = src[i].ID /\ dest[i].Name = src[i].Name /\ Entries(dest[i].Input) = Entries(src[i].Input)

\* C18 as stated: a list of shared tool calls whose Input maps are
\* JSON-serialisable, converted to OpenAI tool calls and back, comes back
\* without errors, with the same length and with each call's ID, Name and
\* Input entries.
C18_ToolCallRoundTripAsStated ==
  (pc = "converted" /\ T = "shared" /\ \A i \in DOMAIN src : Serialisable(src[i].Input)) => RoundTripped

\* C18: the round trip of shared tool calls gives back each call's ID, Name
\* and Input entries, without errors, when the Input values are of the Go
\* types the JSON decoder itself produces (nil, bool, float64, string).
C18_ToolCallRoundTrip ==
  (pc = "converted" /\ T = "shared" /\ \A i \in DOMAIN src : DecodedKinds(src[i].Input)) => RoundTripped
C18_Witness ==
  /\ pc = "converted" /\ T = "shared" /\ Len(src) = 2
  /\ DOMAIN Entries(src[1].Input) = {"stringArg", "numberArg", "boolArg"}
  /\ src[2].Input = Nil
  /\ src[1].ID # src[2].ID
  /\ RoundTripped

\* C19: given an object with a single member whose name is not the expected
\* tag, the externally-tagged decoder fails with the tag-mismatch error,
\* whether or not the payload under that name is well formed for the expected
\* variant: the name is tested before the payload is decoded.
C19_TagBeforePayload ==
  (/\ pc = "decoded" /\ T.go = "externallyTagged"
   /\ data.k = "obj" /\ Cardinality(Keys(data.m)) = 1 /\ Keys(data.m) # {T.P.tag})
    => err = "TagMismatch"

\* C20: the encoding of a duration d is the pair [s, n] where s is d rounded
\* to the nearest whole second, a half second away from zero, and n = d - s
\* seconds in nanoseconds: n is at most half a second in magnitude, s seconds
\* and n nanoseconds add up to d, and n is negative when d was rounded up.
C20_IntervalComponents ==
  (pc = "marshalled" /\ T = VariantT("Value", "Interval")) =>
    LET d == src.d
        s == PayloadOf(data).a[1].n
        n == PayloadOf(data).a[2].n
    IN /\ s * NanosPerSecond + n = d
       /\ 0 - NanosPerSecond <= n + n /\ n + n <= NanosPerSecond
       /\ (n + n = NanosPerSecond => d < 0) /\ (n + n = 0 - NanosPerSecond => d > 0)
       /\ s * NanosPerSecond > d => n < 0

\* C21: for every pair [s, n] of signed 64-bit integers, a successful decode
\* of the pair yields the duration of exactly s seconds and n nanoseconds; a
\* pair whose sum does not fit the signed 64-bit nanosecond count is not
\* decoded to a wrapped-around duration.
C21_IntervalDecodeExact ==
  (/\ pc = "decoded" /\ T = VariantT("Value", "Interval") /\ err = ""
   /\ data.k = "obj" /\ PayloadOf(data).k = "arr")
    => dest.d = PayloadOf(data).a[1].n * NanosPerSecond + PayloadOf(data).a[2].n

\* C22: decoding a Blob payload that is an array succeeds only if every
\* element is an integer in 0..255; an element outside that range makes the
\* decode fail with an error, and no byte is truncated or wrapped.
C22_BlobRangeCheck ==
  (/\ pc = "decoded" /\ T = VariantT("Value", "Blob")
   /\ data.k = "obj" /\ Len(data.m) = 1 /\ data.m[1][1] = "Blob" /\ PayloadOf(data).k = "arr")
    => LET a == PayloadOf(data).a IN
       /\ err = "" => \A i \in DOMAIN a : a[i].k = "num" /\ a[i].n \in 0..255
       /\ (\E i \in DOMAIN a : a[i].k = "num" /\ a[i].n \notin 0..255) => (err # "" /\ dest = None)

\* C23: the encoding of a timestamp of any of the five variants is the tag of
\* the variant over the RFC 3339 string of the instant with its full
\* sub-second precision (no trailing zero, nothing cut to milliseconds or
\* seconds), and the other four variants encode the same instant to the same
\* string under their own tag.
C23_TimestampSharedCodec ==
  (pc = "marshalled" /\ T.fam = "Value" /\ T.tag \in TimestampTags) =>
    LET p == PayloadOf(data) IN
    /\ data.m[1][1] = src.t
    /\ p.k = "str" /\ p.fmt = "rfc3339"
    /\ p.parts[1] = src.time.sec
    /\ FromDigits(p.parts[2], FracWidth) = src.time.nsec
    /\ Len(p.parts[2]) > 0 => p.parts[2][Len(p.parts[2])] # 0
    /\ \A t2 \in TimestampTags : \A d \in MarshalValue(TimeValue(t2, src.time)) :
         d.m[1][1] = t2 /\ PayloadOf(d) = p
C23_Witness ==
  /\ pc = "marshalled" /\ src = TimeValue("TimestampSec", [sec |-> 1745414781, nsec |-> 123450000])
  /\ data = JObj(<< <<"TimestampSec", JText("rfc3339", <<1745414781, <<1, 2, 3, 4, 5>> >>)>> >>)

\* the mapping held by a map-backed value and the array of pairs in its encoding
MappingOf(v) ==
  CASE v.t = "Struct" -> v.m
    [] v.t \in {"Node", "Rel"} -> v.Properties
    [] v.t = "Union" -> v.Types
    [] v.t = "Map" -> v.Pairs
PairArrayOf(v, d) ==
  CASE v.t = "Struct" -> PayloadOf(d).a
    [] v.t \in {"Node", "Rel"} -> ToRaw(PayloadOf(d).m)["properties"].a
    [] v.t = "Union" -> ToRaw(PayloadOf(d).m)["types"].a
    [] v.t = "Map" -> PayloadOf(d).a[2].a
\* the pair is an encoding of the entry of key in the mapping of v
EncodesEntry(v, key, pair) ==
  /\ pair.k = "arr" /\ Len(pair.a) = 2
  /\ IF v.t = "Map" THEN pair.a[1] \in MarshalValue(key) ELSE pair.a[1] = JStr(key)
  /\ IF v.t = "Union" THEN pair.a[2] = MarshalLogicalType(MappingOf(v)[key])
     ELSE pair.a[2] \in MarshalValue(MappingOf(v)[key])

\* C24: the encoding of a StructValue, of the properties of a Node or a Rel,
\* of the types of a UnionValue or of the pairs of a MapValue with n entries
\* is an array of exactly n 2-tuples in which every entry of the mapping
\* occurs exactly once, in whichever order; none is dropped or duplicated.
C24_MapEncodePermutation ==
  (pc = "marshalled" /\ T.fam = "Value" /\ T.tag \in {"Struct", "Node", "Rel", "Union", "Map"}) =>
    LET pairs == PairArrayOf(src, data) IN
    /\ Len(pairs) = Cardinality(DOMAIN MappingOf(src))
    /\ \A key \in DOMAIN MappingOf(src) :
         Cardinality({i \in DOMAIN pairs : EncodesEntry(src, key, pairs[i])}) = 1
C24_Witness ==
  /\ pc = "marshalled" /\ src = StructValue(fields3)
  /\ data = JObj(<< <<"Struct",
       JArr(<<JArr(<<JStr("name"), JObj(<< <<"String", JStr("Joe")>> >>)>>),
              JArr(<<JStr("n"), JObj(<< <<"Int64", JNum(82)>> >>)>>),
              JArr(<<JStr("a"), JObj(<< <<"Bool", JBool(FALSE)>> >>)>>)>>)>> >>)

Distinct(q) == \A i \in DOMAIN q : \A j \in DOMAIN q : i # j => q[i] # q[j]

\* C25: the tags of the Value variants are pairwise distinct, and so are the
\* tags of the LogicalType variants; a document accepted by the typed decoder
\* of one variant is rejected by the typed decoder of every other variant of
\* the family, and the generic decoder returns the variant the document's tag
\* names; every Value tag other than Null is also a LogicalType tag.
C25_TagUniqueness ==
  /\ Distinct(valtypesDefs) /\ Distinct(logtypesDefs)
  /\ registry("Value") = {valtypesDefs[i] : i \in DOMAIN valtypesDefs}
  /\ registry("LogicalType") = {logtypesDefs[i] : i \in DOMAIN logtypesDefs}
  /\ \A fam \in {"Value", "LogicalType"} : \A t1 \in registry(fam) : \A t2 \in registry(fam) :
       t1 # t2 => tag(PayloadT(fam, t1)) # tag(PayloadT(fam, t2))
  /\ registry("Value") \ {"Null"} \subseteq registry("LogicalType")
  /\ (pc = "decoded" /\ T.go = "variant" /\ err = "") =>
       \A t2 \in registry(T.fam) \ {T.tag} : ~IsOk(Unmarshal(VariantT(T.fam, t2), data))
  /\ (pc = "decoded" /\ T = valueUnmarshalHelper /\ err = "") => dest.t = TagOfDoc(data)
  /\ (pc = "decoded" /\ T = logicalTypeUnmarshalHelper /\ err = "") =>
       (IF "lt" \in DOMAIN dest THEN dest.lt ELSE dest.t) = TagOfDoc(data)
C25_Witness ==
  /\ pc = "decoded" /\ T = VariantT("Value", "Int64") /\ err = ""
  /\ data = JObj(<< <<"Int64", JNum(5)>> >>) /\ dest = NumValue("Int64", 5)

\* the list of pairs a document carries for a map-backed destination, the Go
\* type of its elements, and the mapping the decode leaves in the destination
HasPairList(D, d) ==
  CASE D = valueMapJson -> d.k = "arr"
    [] D = VariantT("Value", "Struct") ->
         d.k = "obj" /\ Len(d.m) = 1 /\ d.m[1][1] = "Struct" /\ PayloadOf(d).k = "arr"
    [] D = VariantT("Value", "Union") ->
         /\ d.k = "obj" /\ Len(d.m) = 1 /\ d.m[1][1] = "Union" /\ PayloadOf(d).k = "obj"
         /\ Keys(PayloadOf(d).m) = {"types", "value"}
         /\ ToRaw(PayloadOf(d).m)["types"].k = "arr"
         /\ IsOk(Unmarshal(valueUnmarshalHelper, ToRaw(PayloadOf(d).m)["value"]))
    [] OTHER -> FALSE
PairListOf(D, d) ==
  CASE D = valueMapJson -> d.a
    [] D = VariantT("Value", "Struct") -> PayloadOf(d).a
    [] D = VariantT("Value", "Union") -> ToRaw(PayloadOf(d).m)["types"].a
PairTypeOf(D) ==
  CASE D = valueMapJson -> TwopleT(valueUnmarshalHelper, valueUnmarshalHelper)
    [] D = VariantT("Value", "Struct") -> TwopleT(GoT("string"), valueUnmarshalHelper)
    [] D = VariantT("Value", "Union") -> TwopleT(GoT("string"), logicalTypeUnmarshalHelper)
DecodedMapping(D, v) ==
  CASE D = valueMapJson -> v
    [] D = VariantT("Value", "Struct") -> v.m
    [] D = VariantT("Value", "Union") -> v.Types

\* C26: a list of Struct fields, of Union types or of Map pairs in which a
\* key occurs more than once, each pair being well formed, decodes without an
\* error to a mapping with one entry per distinct key, which holds the value
\* of the key's last pair; the mapping can have fewer entries than the list.
C26_DuplicateKeysLastWins ==
  (/\ pc = "decoded" /\ HasPairList(T, data)
   /\ \A i \in DOMAIN PairListOf(T, data) : IsOk(Unmarshal(PairTypeOf(T), PairListOf(T, data)[i]))
   /\ T = valueMapJson =>
        \A i \in DOMAIN PairListOf(T, data) : hashable(Unmarshal(PairTypeOf(T), PairListOf(T, data)[i]).val.a))
    => /\ err = ""
       /\ LET t == [i \in DOMAIN PairListOf(T, data) |-> Unmarshal(PairTypeOf(T), PairListOf(T, data)[i]).val]
              m == DecodedMapping(T, dest)
          IN /\ DOMAIN m = {t[i].a : i \in DOMAIN t}
             /\ \A i \in DOMAIN t : (\A j \in DOMAIN t : t[j].a = t[i].a => j <= i) => m[t[i].a] = t[i].b
C26_Witness ==
  /\ pc = "decoded" /\ T = VariantT("Value", "Struct") /\ HasPairList(T, data)
  /\ Len(PayloadOf(data).a) = 3
  /\ PayloadOf(data).a[1] = JArr(<<JStr("a"), JObj(<< <<"Bool", JBool(TRUE)>> >>)>>)
  /\ PayloadOf(data).a[3] = JArr(<<JStr("a"), JObj(<< <<"Bool", JBool(FALSE)>> >>)>>)
  /\ err = "" /\ dest = StructValue([a |-> BoolValue(FALSE), b |-> BoolValue(TRUE)])

\* a decimal numeral, an optional sign before one or more digits, and its value
IntegerTypes == {"int8", "int16", "int32", "int64", "uint8", "uint16", "uint32", "uint64", "int128"}
HasSign(s) == s.chars # <<>> /\ s.chars[1] \in {"+", "-"}
DigitsOf(s) == IF HasSign(s) THEN Tail(s.chars) ELSE s.chars
DigitValue(c) ==
  CASE c = "0" -> 0 [] c = "1" -> 1 [] c = "2" -> 2 [] c = "3" -> 3 [] c = "4" -> 4
    [] c = "5" -> 5 [] c = "6" -> 6 [] c = "7" -> 7 [] c = "8" -> 8 [] c = "9" -> 9 [] OTHER -> 10
IsNumeral(s) ==
  /\ "chars" \in DOMAIN s /\ DigitsOf(s) # <<>>
  /\ \A i \in DOMAIN DigitsOf(s) : DigitValue(DigitsOf(s)[i]) < 10
RECURSIVE Magnitude(_)
Magnitude(q) == IF q = <<>> THEN 0 ELSE 10 * Magnitude(SubSeq(q, 1, Len(q) - 1)) + DigitValue(q[Len(q)])
NumeralValue(s) == IF s.chars[1] = "-" THEN 0 - Magnitude(DigitsOf(s)) ELSE Magnitude(DigitsOf(s))
\* the range of the integer type of a filter; int128 is held in 64 bits
RangeOf(valType) ==
  LET R == IF valType = "int128" THEN Int64T ELSE IntTypeOf(VariantOf(valType)) IN R.lo..R.hi
ParsedInteger(accepted) ==
  IF accepted THEN err = "" /\ dest = NumValue(VariantOf(T), NumeralValue(src))
  ELSE err # "" /\ dest = None

C29_StreamTermination ==
  (pc.fn = "returned" /\ err = "" /\ pc.recv = "returned") =>
    /\ calls.closed
    /\ calls.Close # <<>>
    /\ calls.cancel # <<>>

\* C30: where StreamFunction returns an error after the connection was
\* created (metadata, input conversion, unknown input type, gRPC call) it has
\* closed the connection once and cancelled the context once and started no
\* goroutine; where it returns a channel it has released neither and started
\* one goroutine, the only one that releases them.
C30_StreamFunctionOwnership ==
  pc.fn = "returned" =>
    /\ (err # "" /\ src.found /\ src.connect) =>
         /\ calls.Close = <<"StreamFunction">> /\ calls.cancel = <<"StreamFunction">>
         /\ calls.goroutines = 0 /\ pc.recv = "none"
    /\ err = "" =>
         /\ calls.goroutines = 1
         /\ \A i \in DOMAIN calls.Close : calls.Close[i] = "receiver"
         /\ \A i \in DOMAIN calls.cancel : calls.cancel[i] = "receiver"
         /\ Len(calls.Close) <= 1 /\ Len(calls.cancel) <= 1
    /\ (err # "" /\ ~(src.found /\ src.connect)) =>
         calls.Close = <<>> /\ calls.cancel = <<>> /\ calls.goroutines = 0
C30_Witness ==
  /\ pc.fn = "returned"
  /\ src.found /\ src.connect /\ src.metadata /\ src.inputs = <<"ok", "absent">> /\ ~src.grpc
  /\ err = "error in external function gRPC StreamFunction"
  /\ calls.Close = <<"StreamFunction">> /\ calls.cancel = <<"StreamFunction">>

====
